---------------------------- MODULE Spec2Model ----------------------------
(***************************************************************************)
(* A model of the edea KiCad tooling: the s-expression tokenizer and       *)
(* parser (edea/parser.py), attribute-style tag lookup on Expr nodes, the  *)
(* BoundingBox geometry kernel (edea/bbox.py), the typed-schema            *)
(* constructor KicadExpr.from_list (edea/types/base.py) and Project.parse  *)
(* (edea/edea.py).                                                         *)
(*                                                                         *)
(* Text is a sequence of characters.  A character is a one-element string; *)
(* a word such as "property" stands for one character of the class         *)
(* [^\s()"\\] that is neither a digit, a sign, a point nor an underscore,  *)
(* so tag names stay readable.  Tokens are sequences of characters.        *)
(***************************************************************************)
EXTENDS Integers, Sequences, FiniteSets, TLC

VARIABLES
    \* ---- parser component
    src,        \* the text handed to from_str
    p_pc,       \* "idle" | "input" | "parsed" | "looked" | "printed" | "reparsed"
    res,        \* outcome of from_str(src)
    look,       \* outcome of the last tag lookup on the parsed node
    out,        \* str(expr): the serialization of the parsed tree
    res2,       \* outcome of from_str(out)
    \* ---- BoundingBox component
    box,        \* the BoundingBox object's fields
    prev,       \* the fields before the last call
    hist,       \* the calls made on the box so far, with their arguments
    filled,     \* whether some envelop call so far was given a point
    \* ---- typed schema component
    t_expr,     \* the list handed to Schematic.from_list (tag already removed)
    t_pc,       \* position inside KicadExpr.from_list
    t_args,     \* parsed_args
    t_kwargs,   \* parsed_kwargs: sequence of [kw, exp] in insertion order
    t_idx,      \* number of parsed_kwargs entries the field loop has handled
    t_touched,  \* keywords whose field was looked up, converted or recursed into
    t_result,   \* "none", "ok" or the error raised
    t_tried,    \* the members tried for the last union field, with their outcomes
    \* ---- Project component
    fs,         \* the files on disk: file name -> parsed content
    j_pc,       \* position inside Project.parse
    j_opened,   \* files opened so far, in order
    j_symbol_instances, \* Project.symbol_instances
    j_schematics,       \* Project.schematics: sequence of [uuid, file]
    j_fn_to_uuid,       \* Project.fn_to_uuid: sequence of [fn, uuid]
    j_sch,      \* the root schematic parse() holds
    j_top,      \* Project.top
    j_stack,    \* pending _parse_sheet frames
    j_result,   \* "none", "ok" or the error raised
    j_made,     \* the Projects constructed so far in this interpreter
    j_first,    \* the maps and the result the first parse() ended with
    j_meta,     \* what metadata() ended with, once it was asked for
    \* ---- Schematic.append component
    a_todo,     \* the schematics still to append: their label names
    a_pc,       \* "idle" | "loop" | "done"
    a_last_x,   \* last_x
    a_last_y,   \* last_y
    a_max_height, \* max_height
    a_sheets,   \* the sheet blocks appended to the target, in order
    a_pages,    \* the path entries of the target's sheet_instances, in order
    a_result,   \* "none", "ok" or the error raised
    \* --- Net.rename
    n_net,      \* the net
    n_before,   \* the net before the last rename
    n_numbers,  \* the numbers map of the last rename
    n_names,    \* the names map of the last rename
    n_count,    \* the renames done
    \* --- Drawable.draw of a rectangle
    d_self,     \* the rectangle node
    d_position, \* the position it is drawn at
    d_node,     \* the Elem draw fills: its typ and its attributes
    d_out,      \* what draw returned: the fragment, or the error raised
    d_pc,       \* "idle", "ready" or "drawn"
    \* --- Project.metadata
    m_top,              \* Project.top
    m_schematics,       \* Project.schematics: uuid -> schematic
    m_fn_to_uuid,       \* Project.fn_to_uuid
    m_symbol_instances, \* Project.symbol_instances
    m_pcb,              \* Project.pcb
    m_parts,            \* metadata's parts
    m_keys,             \* the grouping key groupby computed for each part
    m_result,           \* what metadata returned, or the error raised
    m_pc,               \* "idle", "parsed" or "done"
    g_self,     \* the receiver: the tree of the PCB append is called on
    g_pcbs,     \* the boards handed to append: sequence of [uuid, pcb]
    g_pc,       \* "made" | "appended" | "moved"
    g_before,   \* the receiver as it was before the last call
    g_placed,   \* per move of append: the receiver's box before it, the moved board's after
    \* ---- Footprint.bounding_box component
    f_self,     \* the footprint
    f_box,      \* what bounding_box() returned or raised
    f_pc,       \* "idle" | "made" | "measured"
    \* ---- PCB.move component
    k_pcb,      \* the tree of the board
    k_before,   \* the tree before move was called
    k_offset,   \* the (x, y) move was called with
    k_result,   \* "none", "ok" or the error move raised
    k_pc        \* "idle" | "made" | "moved"

parserVars == <<src, p_pc, res, look, out, res2>>
bboxVars == <<box, prev, hist, filled>>
typedVars == <<t_expr, t_pc, t_args, t_kwargs, t_idx, t_touched, t_result,
               t_tried>>
projVars == <<fs, j_pc, j_opened, j_symbol_instances, j_schematics,
              j_fn_to_uuid, j_sch, j_top, j_stack, j_result, j_made,
              j_first, j_meta>>
sheetsVars == <<a_todo, a_pc, a_last_x, a_last_y, a_max_height, a_sheets,
                a_pages, a_result>>
netVars == <<n_net, n_before, n_numbers, n_names, n_count>>
drawVars == <<d_self, d_position, d_node, d_out, d_pc>>
bomVars == <<m_top, m_schematics, m_fn_to_uuid, m_symbol_instances, m_pcb, m_parts, m_keys, m_result, m_pc>>
mergeVars == <<g_self, g_pcbs, g_pc, g_before, g_placed>>
footVars == <<f_self, f_box, f_pc>>
moveVars == <<k_pcb, k_before, k_offset, k_result, k_pc>>
vars == <<parserVars, bboxVars, typedVars, projVars, sheetsVars, netVars, drawVars, bomVars, mergeVars, footVars, moveVars>>

\* What the steps of one component leave alone.
ParserFrame == UNCHANGED <<bboxVars, typedVars, projVars, sheetsVars, netVars, drawVars, bomVars, mergeVars, footVars, moveVars>>

BBoxFrame == UNCHANGED <<parserVars, typedVars, projVars, sheetsVars, netVars, drawVars, bomVars, mergeVars, footVars, moveVars>>

TypedFrame == UNCHANGED <<parserVars, bboxVars, projVars, sheetsVars, netVars, drawVars, bomVars, mergeVars, footVars, moveVars>>

ProjFrame == UNCHANGED <<parserVars, bboxVars, typedVars, sheetsVars, netVars, drawVars, bomVars, mergeVars, footVars, moveVars>>

SheetsFrame == UNCHANGED <<parserVars, bboxVars, typedVars, projVars, netVars, drawVars, bomVars, mergeVars, footVars, moveVars>>

NetFrame == UNCHANGED <<parserVars, bboxVars, typedVars, projVars, sheetsVars, drawVars, bomVars, mergeVars, footVars, moveVars>>

DrawFrame == UNCHANGED <<parserVars, bboxVars, typedVars, projVars, sheetsVars, netVars, bomVars, mergeVars, footVars, moveVars>>

BomFrame == UNCHANGED <<parserVars, bboxVars, typedVars, projVars, sheetsVars, netVars, drawVars, mergeVars, footVars, moveVars>>

MergeFrame == UNCHANGED <<parserVars, bboxVars, typedVars, projVars, sheetsVars, netVars, drawVars, bomVars, footVars, moveVars>>

FootFrame == UNCHANGED <<parserVars, bboxVars, typedVars, projVars, sheetsVars, netVars, drawVars, bomVars, mergeVars, moveVars>>

MoveFrame == UNCHANGED <<parserVars, bboxVars, typedVars, projVars, sheetsVars, netVars, drawVars, bomVars, mergeVars, footVars>>

-----------------------------------------------------------------------------
(* Characters and the tokenizer                                            *)

W(s) == <<s>>

IsSpace(c) == c \in {" ", "\n", "\t"}

Digits == <<"0", "1", "2", "3", "4", "5", "6", "7", "8", "9">>

IsDigit(c) == \E i \in 1..10 : Digits[i] = c

DigitVal(c) == (CHOOSE i \in 1..10 : Digits[i] = c) - 1

\* "[^"\\]*(?:\\.[^"\\]*)*" from position j, just after the opening quote:
\* the index of the closing quote, or 0 when the alternative does not match.
RECURSIVE QuotedEnd(_, _)
QuotedEnd(text, j) ==
    IF j > Len(text) THEN 0
    ELSE IF text[j] = "\"" THEN j
    ELSE IF text[j] = "\\"
         THEN IF j + 1 > Len(text) \/ text[j + 1] = "\n"
              THEN 0
              ELSE QuotedEnd(text, j + 2)
    ELSE QuotedEnd(text, j + 1)

\* [^\s()"]+ from position i: the index of the last character of the run.
RECURSIVE SymbolEnd(_, _)
SymbolEnd(text, i) ==
    IF i + 1 > Len(text) THEN i
    ELSE IF IsSpace(text[i + 1]) \/ text[i + 1] \in {"(", ")", "\""} THEN i
    ELSE SymbolEnd(text, i + 1)

\* The quoted-string alternatives findall matches from position i on, as
\* <<first, last>> pairs: a quote opens a string that runs to its closing
\* quote, or is a token of its own when the string alternative fails.
RECURSIVE QuoteTokens(_, _)
QuoteTokens(text, i) ==
    LET quotes == {q \in i..Len(text) : text[q] = "\""} IN
    IF quotes = {} THEN {}
    ELSE LET q == CHOOSE x \in quotes : \A y \in quotes : x <= y
             e == QuotedEnd(text, q + 1)
         IN  IF e # 0
             THEN {<<q, e>>} \cup QuoteTokens(text, e + 1)
             ELSE {<<q, q>>} \cup QuoteTokens(text, q + 1)

\* TOKENIZE_EXPR.findall(text): the matches, left to right.  A match starts
\* at a quote outside the earlier matches, at a paren, or at the first
\* character of a run of [^\s()"].
TOKENIZE_EXPR(text) ==
    LET qt == QuoteTokens(text, 1)
        covered == {p \in 1..Len(text) :
                       \E t \in qt : t[1] <= p /\ p <= t[2]}
        parens == {p \in 1..Len(text) \ covered : text[p] \in {"(", ")"}}
        sym == {p \in 1..Len(text) \ covered :
                   ~IsSpace(text[p]) /\ text[p] \notin {"(", ")", "\""}}
        starts == {t[1] : t \in qt} \cup parens
                  \cup {p \in sym : (p - 1) \notin sym}
        last(p) == IF \E t \in qt : t[1] = p
                   THEN (CHOOSE t \in qt : t[1] = p)[2]
                   ELSE IF p \in parens THEN p
                   ELSE SymbolEnd(text, p)
        nth(k) == CHOOSE p \in starts :
                     Cardinality({x \in starts : x < p}) = k - 1
    IN  [k \in 1..Cardinality(starts) |->
            SubSeq(text, nth(k), last(nth(k)))]

-----------------------------------------------------------------------------
(* Atoms: int(token), float(token), Symbol(token) and their str()          *)

Unsigned(tok) ==
    IF Len(tok) > 0 /\ tok[1] \in {"+", "-"} THEN Tail(tok) ELSE tok

IsNegative(tok) == Len(tok) > 0 /\ tok[1] = "-"

\* digit (["_"] digit)*
IsDigitPart(s) ==
    /\ Len(s) > 0
    /\ IsDigit(s[1])
    /\ IsDigit(s[Len(s)])
    /\ \A i \in 1..Len(s) : IsDigit(s[i]) \/ s[i] = "_"
    /\ \A i \in 1..(Len(s) - 1) : ~(s[i] = "_" /\ s[i + 1] = "_")

RECURSIVE DigitsValue(_, _)
DigitsValue(s, acc) ==
    IF s = <<>> THEN acc
    ELSE IF s[1] = "_" THEN DigitsValue(Tail(s), acc)
    ELSE DigitsValue(Tail(s), 10 * acc + DigitVal(s[1]))

RECURSIVE CountDigits(_)
CountDigits(s) ==
    IF s = <<>> THEN 0
    ELSE (IF IsDigit(s[1]) THEN 1 ELSE 0) + CountDigits(Tail(s))

RECURSIVE Pow10(_)
Pow10(n) == IF n = 0 THEN 1 ELSE 10 * Pow10(n - 1)

IsIntToken(tok) == IsDigitPart(Unsigned(tok))

PointAt(s) == IF \E i \in 1..Len(s) : s[i] = "."
              THEN CHOOSE i \in 1..Len(s) : s[i] = "."
              ELSE 0

\* The decimal spellings float() accepts over the model's characters:
\* [sign] digitpart ["." [digitpart]] | [sign] "." digitpart.
IsFloatToken(tok) ==
    LET s == Unsigned(tok)
        p == PointAt(s)
        ip == IF p = 0 THEN s ELSE SubSeq(s, 1, p - 1)
        fp == IF p = 0 THEN <<>> ELSE SubSeq(s, p + 1, Len(s))
    IN  /\ ip = <<>> \/ IsDigitPart(ip)
        /\ fp = <<>> \/ IsDigitPart(fp)
        /\ ip # <<>> \/ fp # <<>>

RECURSIVE Normalize(_, _)
Normalize(m, e) ==
    IF e > 0 /\ m % 10 = 0 THEN Normalize(m \div 10, e - 1) ELSE <<m, e>>

\* A float is neg * m / 10^e with m not a multiple of 10 unless e = 0.
FloatOf(tok) ==
    LET s == Unsigned(tok)
        p == PointAt(s)
        ip == IF p = 0 THEN s ELSE SubSeq(s, 1, p - 1)
        fp == IF p = 0 THEN <<>> ELSE SubSeq(s, p + 1, Len(s))
        n == Normalize(DigitsValue(ip \o fp, 0), CountDigits(fp))
    IN  [k |-> "float", neg |-> IsNegative(tok), m |-> n[1], e |-> n[2]]

IntOf(tok) ==
    LET v == DigitsValue(Unsigned(tok), 0) IN
    [k |-> "int", i |-> IF IsNegative(tok) THEN 0 - v ELSE v]

RECURSIVE NatStr(_)
NatStr(n) ==
    IF n < 10 THEN <<Digits[n + 1]>>
    ELSE NatStr(n \div 10) \o <<Digits[(n % 10) + 1]>>

RECURSIVE PadZeros(_, _)
PadZeros(s, n) == IF Len(s) >= n THEN s ELSE PadZeros(<<"0">> \o s, n)

int_str(a) ==
    IF a.i < 0 THEN <<"-">> \o NatStr(0 - a.i) ELSE NatStr(a.i)

\* A float printed without its ".0" when it has no fractional digits
float_str_without_point(a) ==
    LET ip == a.m \div Pow10(a.e)
        fp == a.m % Pow10(a.e)
    IN  (IF a.neg THEN <<"-">> ELSE <<>>)
        \o NatStr(ip)
        \o (IF a.e = 0 THEN <<>> ELSE <<".">> \o PadZeros(NatStr(fp), a.e))

\* repr(float) in positional notation (magnitudes in [1e-4, 1e16) and zero).
float_str(a) ==
    LET ip == a.m \div Pow10(a.e)
        fp == a.m % Pow10(a.e)
    IN  (IF a.neg THEN <<"-">> ELSE <<>>)
        \o NatStr(ip) \o <<".">>
        \o (IF a.e = 0 THEN <<"0">> ELSE PadZeros(NatStr(fp), a.e))

\* from_tokens lines 669-676: int, else float, else Symbol.
atom(tok) ==
    IF IsIntToken(tok) THEN IntOf(tok)
    ELSE IF IsFloatToken(tok) THEN FloatOf(tok)
    ELSE [k |-> "str", s |-> tok]

\* the one element of a set of one element
Only(S) == CHOOSE v \in S : TRUE

IsNode(x) == x.k = "node"

IsStr(x) == x.k = "str"


-----------------------------------------------------------------------------
(* The generic tree: Expr and its specialised variants                      *)

to_be_moved ==
    {W("footprint"), W("gr_text"), W("gr_poly"), W("gr_line"), W("gr_arc"),
     W("via"), W("segment"), W("dimension"), W("gr_circle"), W("gr_curve"),
     W("arc"), W("polygon"), W("filled_polygon")}

skip_move == {W("primitives")}

movable_types ==
    {W("at"), W("xy"), W("start"), W("end"), W("center"), W("mid")}

drawable_types ==
    {W("pin"), W("polyline"), W("rectangle"), W("wire"), W("property"),
     W("hierarchical_label"), W("junction"), W("text"), W("label")}

\* Expr.__init__(typ) with no further arguments.
Expr(cls, typ) ==
    [k |-> "node", cls |-> cls, name |-> typ, data |-> <<>>,
     known |-> {}, more |-> {}]

\* The class from_tokens instantiates for tag typ (lines 638-655).
Variant(typ, parent, grand_parent) ==
    IF typ \in drawable_types THEN "Drawable"
    ELSE IF typ = W("pad") THEN "Pad"
    ELSE IF typ = W("footprint") THEN "Footprint"
    ELSE IF typ = W("fp_line") THEN "FPLine"
    ELSE IF typ \in {W("polygon"), W("filled_polygon")} THEN "Polygon"
    ELSE IF typ = W("pts") /\ parent \in to_be_moved
            /\ grand_parent \notin skip_move THEN "Pts"
    ELSE IF typ \in movable_types /\ parent \in to_be_moved THEN "Movable"
    ELSE IF typ = W("tstamp") THEN "TStamp"
    ELSE "Expr"

RECURSIVE parsed_loop(_, _, _)
parsed_loop(data, known, more) ==
    IF data = <<>> THEN <<known, more>>
    ELSE LET item == Head(data) IN
         IF ~IsNode(item) THEN parsed_loop(Tail(data), known, more)
         ELSE IF item.name \in known
              THEN parsed_loop(Tail(data), known, more \cup {item.name})
              ELSE parsed_loop(Tail(data), known \cup {item.name}, more)

\* Expr.parsed(): adds to the sets the node already holds.
parsed(n) ==
    LET r == parsed_loop(n.data, n.known, n.more) IN
    [n EXCEPT !.known = r[1], !.more = r[2]]

Raise(kind, msg) == [st |-> kind, msg |-> msg]

\* from_tokens; index counts tokens consumed, as in the source (0-based).
RECURSIVE from_tokens(_, _, _, _)
RECURSIVE read_children(_, _, _, _)
from_tokens(tokens, index, parent, grand_parent) ==
    IF Len(tokens) = index THEN Raise("SyntaxError", "unexpected EOF")
    ELSE LET token == tokens[index + 1] IN
         IF token = W("(")
         THEN IF index + 1 >= Len(tokens)
              THEN Raise("IndexError", "list index out of range")
              ELSE LET typ == tokens[index + 2]
                       expr == Expr(Variant(typ, parent, grand_parent), typ)
                       r == read_children(tokens, index + 2, expr, parent)
                   IN  IF r.st # "ok" THEN r
                       ELSE [st |-> "ok", index |-> r.index,
                             expr |-> parsed(r.expr)]
         ELSE IF token = W(")") THEN Raise("SyntaxError", "unexpected )")
         ELSE [st |-> "ok", index |-> index + 1, expr |-> atom(token)]

\* The while loop of lines 657-660, and the index += 1 that drops ')'.
read_children(tokens, index, expr, parent) ==
    IF index >= Len(tokens)
    THEN Raise("IndexError", "list index out of range")
    ELSE IF tokens[index + 1] = W(")")
    THEN [st |-> "ok", index |-> index + 1, expr |-> expr]
    ELSE LET r == from_tokens(tokens, index, expr.name, parent) IN
         IF r.st # "ok" THEN r
         ELSE read_children(tokens, r.index,
                            [expr EXCEPT !.data = Append(@, r.expr)], parent)

\* from_str: the index from_tokens returns is dropped.
from_str(program) ==
    LET r == from_tokens(TOKENIZE_EXPR(program), 0, <<>>, <<>>) IN
    IF r.st # "ok" THEN r ELSE [st |-> "ok", expr |-> r.expr]

RECURSIVE JoinWith(_, _)
JoinWith(sep, parts) ==
    IF parts = <<>> THEN <<>>
    ELSE IF Len(parts) = 1 THEN parts[1]
    ELSE parts[1] \o sep \o JoinWith(sep, Tail(parts))

\* str() of an atom or of an Expr (Expr.__str__).
RECURSIVE __str__(_)
__str__(x) ==
    IF x.k = "int" THEN int_str(x)
    ELSE IF x.k = "float" THEN float_str(x)
    ELSE IF x.k = "str" THEN x.s
    ELSE LET sub == JoinWith(<<" ">>,
                        [i \in 1..Len(x.data) |-> __str__(x.data[i])])
         IN  <<"\n", "(">> \o x.name \o <<" ">> \o sub \o <<")">>

-----------------------------------------------------------------------------
(* Expr.__getattr__: attribute-style lookup of a child tag                  *)

\* str.strip('"')
RECURSIVE lstrip(_)
lstrip(s) == IF s # <<>> /\ s[1] = "\"" THEN lstrip(Tail(s)) ELSE s

RECURSIVE rstrip(_)
rstrip(s) ==
    IF s # <<>> /\ s[Len(s)] = "\"" THEN rstrip(SubSeq(s, 1, Len(s) - 1))
    ELSE s

strip(s) == rstrip(lstrip(s))

\* key in dict_items: the key as it stands in the child, quotes included.
HasKey(dict_items, key) ==
    IsStr(key) /\ \E i \in 1..Len(dict_items) : dict_items[i].key = key.s

\* dict_items[key] = item
DictSet(dict_items, key, item) ==
    IF \E i \in 1..Len(dict_items) : dict_items[i].key = key
    THEN [i \in 1..Len(dict_items) |->
            IF dict_items[i].key = key
            THEN [key |-> key, item |-> item]
            ELSE dict_items[i]]
    ELSE Append(dict_items, [key |-> key, item |-> item])

\* The first loop (lines 139-145): the item returned, or a failure.
RECURSIVE getattr_once(_, _)
getattr_once(data, name) ==
    IF data = <<>> THEN [r |-> "none"]
    ELSE LET item == Head(data) IN
         IF IsStr(item)
         THEN IF item.s = name THEN [r |-> "single", item |-> item]
              ELSE getattr_once(Tail(data), name)
         ELSE IF ~IsNode(item) THEN [r |-> "AttributeError"]
         ELSE IF item.name = name THEN [r |-> "single", item |-> item]
         ELSE getattr_once(Tail(data), name)

\* The second loop (lines 147-164).
RECURSIVE getattr_many(_, _, _, _, _)
getattr_many(data, name, dict_items, items, skip) ==
    IF data = <<>>
    THEN IF ~skip THEN [r |-> "map", entries |-> dict_items]
         ELSE [r |-> "list", items |-> items]
    ELSE LET item == Head(data) IN
         IF ~IsNode(item) THEN [r |-> "AttributeError"]
         ELSE IF item.name # name
         THEN getattr_many(Tail(data), name, dict_items, items, skip)
         ELSE IF skip
         THEN getattr_many(Tail(data), name, dict_items,
                           Append(items, item), skip)
         ELSE IF item.data = <<>> THEN [r |-> "IndexError"]
         ELSE LET first == item.data[1] IN
              IF IsNode(first) \/ HasKey(dict_items, first)
              THEN getattr_many(Tail(data), name, dict_items,
                                Append(items, item), TRUE)
              ELSE IF ~IsStr(first) THEN [r |-> "AttributeError"]
              ELSE getattr_many(Tail(data), name,
                                DictSet(dict_items, strip(first.s), item),
                                Append(items, item), skip)

__getattr__(n, name) ==
    IF name \notin n.known THEN [r |-> "AttributeError"]
    ELSE LET one == IF name \notin n.more
                    THEN getattr_once(n.data, name)
                    ELSE [r |-> "none"]
         IN  IF one.r # "none" THEN one
             ELSE getattr_many(n.data, name, <<>>, <<>>, FALSE)

-----------------------------------------------------------------------------
(* Parser component: the texts tried, and the steps a caller takes          *)

MaxKids == 3

MaxRaw == 5

Sp == <<" ">>

Q(s) == <<"\"", s, "\"">>

\* " (tag body)"
L(tag, body) == <<" ", "(", tag>> \o body \o <<")">>

\* Children a node's text is assembled from.
Fragments ==
    { L("property", Sp \o Q("A") \o Sp \o W("1")),
      L("property", Sp \o Q("B") \o Sp \o W("2")),
      L("property", Sp \o Q("A") \o Sp \o W("3")),
      L("property", Sp \o W("A") \o Sp \o W("4")),
      L("property", L("q", <<>>) \o Sp \o Q("A")),
      L("property", <<>>),
      L("pin", Sp \o W("7")),
      Sp \o W("property"),
      Sp \o W("5"),
      Sp \o <<"1", ".", "5", "0">> \o Sp \o <<"-", "0", ".", "0">>
         \o Sp \o <<"+", "1">> \o Sp \o <<".", "5">> \o Sp \o <<"0", "1", "_", "0">>
         \o Sp \o <<"-", ".">> \o Sp \o Q("q r"),
      L("footprint", Sp \o Q("lib") \o L("at", Sp \o W("1") \o Sp \o W("2"))
                     \o L("pts", L("xy", Sp \o W("1") \o Sp \o W("1")))
                     \o L("primitives", L("gr_poly", L("pts", <<>>)))) }

RECURSIVE Concat(_)
Concat(parts) ==
    IF parts = <<>> THEN <<>> ELSE Head(parts) \o Concat(Tail(parts))

\* One balanced tagged list: "(n" child* ")".
WellFormedTexts ==
    { <<"(", "n">> \o Concat(fr) \o <<")">> :
        fr \in UNION { [1..n -> Fragments] : n \in 0..MaxKids } }

RawTokens == {W("("), W(")"), W("a"), W("1")}

\* Arbitrary token sequences, written with one space between tokens.
RawTexts ==
    { JoinWith(Sp, ts) : ts \in UNION { [1..n -> RawTokens] : n \in 0..MaxRaw } }

\* Tags looked up on a parsed node.
LookupTags == {W("property"), W("pin"), W("at")}

NoRes == [st |-> "none"]

NoLook == [tag |-> <<>>, r |-> [r |-> "none"]]

ParserIdle ==
    /\ src = <<>>
    /\ p_pc = "idle"
    /\ res = NoRes
    /\ look = NoLook
    /\ out = <<>>
    /\ res2 = NoRes

ParserInit ==
    /\ src \in WellFormedTexts \cup RawTexts
    /\ p_pc = "input"
    /\ res = NoRes
    /\ look = NoLook
    /\ out = <<>>
    /\ res2 = NoRes

\* expr = from_str(src)
DoFromStr ==
    /\ p_pc = "input"
    /\ res' = from_str(src)
    /\ p_pc' = "parsed"
    /\ UNCHANGED <<src, look, out, res2>>
    /\ ParserFrame

\* getattr(expr, tag) on the node from_str returned
DoGetAttr ==
    /\ p_pc = "parsed"
    /\ res.st = "ok"
    /\ IsNode(res.expr)
    /\ \E tag \in LookupTags :
          look' = [tag |-> tag, r |-> __getattr__(res.expr, tag)]
    /\ p_pc' = "looked"
    /\ UNCHANGED <<src, res, out, res2>>
    /\ ParserFrame

\* text = str(expr)
DoStr ==
    /\ p_pc = "parsed"
    /\ res.st = "ok"
    /\ out' = __str__(res.expr)
    /\ p_pc' = "printed"
    /\ UNCHANGED <<src, res, look, res2>>
    /\ ParserFrame

\* from_str(text)
DoReparse ==
    /\ p_pc = "printed"
    /\ res2' = from_str(out)
    /\ p_pc' = "reparsed"
    /\ UNCHANGED <<src, res, look, out>>
    /\ ParserFrame

ParserNext == DoFromStr \/ DoGetAttr \/ DoStr \/ DoReparse

-----------------------------------------------------------------------------
(* BoundingBox (edea/bbox.py).  Coordinates are fixed-point numbers in      *)
(* thousandths; sines and cosines are in thousandths too.                    *)

Inf == 1000000000

MaxOps == 3

SetMin(S) == CHOOSE x \in S : \A y \in S : x <= y

SetMax(S) == CHOOSE x \in S : \A y \in S : x >= y

\* BoundingBox.reset: min = +inf, max = -inf, _valid = False
reset ==
    [valid |-> FALSE, min_x |-> Inf, min_y |-> Inf,
     max_x |-> 0 - Inf, max_y |-> 0 - Inf]

\* BoundingBox.corners of a valid box
corners(b) ==
    << <<b.min_x, b.min_y>>, <<b.min_x, b.max_y>>,
       <<b.max_x, b.max_y>>, <<b.max_x, b.min_y>> >>

\* An (n,2) array of points
Array(rows) ==
    [kind |-> "array", ndim |-> 2, cols |-> 2, n |-> Len(rows), rows |-> rows]

\* envelop without the corners the box already holds (extended = points)
envelop_forgets_corners(b, points) ==
    IF points.kind = "None" \/ points.n = 0
    THEN [box |-> b, exc |-> "none"]
    ELSE IF points.ndim # 2 \/ points.cols # 2
    THEN [box |-> b, exc |-> "ValueError"]
    ELSE LET extended == points.rows
             xs == {extended[i][1] : i \in 1..Len(extended)}
             ys == {extended[i][2] : i \in 1..Len(extended)}
         IN  [box |-> [valid |-> TRUE,
                       min_x |-> SetMin(xs), min_y |-> SetMin(ys),
                       max_x |-> SetMax(xs), max_y |-> SetMax(ys)],
              exc |-> "none"]

\* BoundingBox.envelop(self, points): the new fields and the exception raised
envelop(b, points) ==
    IF points.kind = "None" \/ points.n = 0
    THEN [box |-> b, exc |-> "none"]
    ELSE IF points.ndim # 2 \/ points.cols # 2
    THEN [box |-> b, exc |-> "ValueError"]
    ELSE LET extended == IF b.valid THEN points.rows \o corners(b)
                         ELSE points.rows
             xs == {extended[i][1] : i \in 1..Len(extended)}
             ys == {extended[i][2] : i \in 1..Len(extended)}
         IN  [box |-> [valid |-> TRUE,
                       min_x |-> SetMin(xs), min_y |-> SetMin(ys),
                       max_x |-> SetMax(xs), max_y |-> SetMax(ys)],
              exc |-> "none"]

\* BoundingBox.translate(self, coords)
translate(b, coords) ==
    IF b.valid
    THEN [b EXCEPT !.min_x = @ + coords[1], !.max_x = @ + coords[1],
                   !.min_y = @ + coords[2], !.max_y = @ + coords[2]]
    ELSE b

\* sin(angle / tau) and cos(angle / tau) in thousandths, for the angles tried
angle_sin(angle) ==
    CASE angle = 0 -> 0
      [] angle = 90 -> 983
      [] angle = 180 -> 0 - 365
      [] angle = 360 -> 680

angle_cos(angle) ==
    CASE angle = 0 -> 1000
      [] angle = 90 -> 0 - 186
      [] angle = 180 -> 0 - 931
      [] angle = 360 -> 734

\* a product of two thousandths, rounded back to thousandths
Milli(a) == (a + 500) \div 1000

\* lines 85-88: the corners as rotate transforms them
rotated_corners(b, angle) ==
    [i \in 1..4 |->
        LET corner == corners(b)[i] IN
        << Milli(corner[1] * angle_cos(angle) + corner[2] * angle_sin(angle)),
           Milli(corner[2] * angle_cos(angle) + corner[1] * angle_sin(angle)) >>]

\* rotate without the closing envelop call
rotate_forgets_envelop(b, angle) ==
    IF b.valid THEN reset ELSE b

\* BoundingBox.rotate(self, angle)
rotate(b, angle) ==
    IF b.valid
    THEN envelop(reset, Array(rotated_corners(b, angle))).box
    ELSE b

width(b) == IF b.valid THEN b.max_x - b.min_x ELSE 0

height(b) == IF b.valid THEN b.max_y - b.min_y ELSE 0

area(b) == width(b) * height(b)

\* ---- the calls tried

PA == <<0, 0>>

PB == <<2000, 1000>>

PC == <<0 - 1000, 3000>>

EnvelopArgs ==
    { [kind |-> "None"],
      Array(<<>>), Array(<<PA>>), Array(<<PB, PC>>), Array(<<PC>>),
      [kind |-> "array", ndim |-> 2, cols |-> 3, n |-> 1, rows |-> <<>>],
      [kind |-> "array", ndim |-> 1, cols |-> 0, n |-> 2, rows |-> <<>>] }

HasPoints(points) ==
    points.kind = "array" /\ points.n > 0 /\ points.ndim = 2 /\ points.cols = 2

TranslateArgs == { <<1000, 0>>, <<0 - 2000, 3000>> }

Angles == {0, 90, 360}

BBoxIdle ==
    /\ box = reset
    /\ prev = reset
    /\ hist = <<>>
    /\ filled = FALSE

\* BoundingBox.__init__(points): reset, then envelop(points)
BBoxInit ==
    \E points \in EnvelopArgs :
        /\ envelop(reset, points).exc = "none"
        /\ box = envelop(reset, points).box
        /\ prev = reset
        /\ hist = <<[op |-> "__init__", arg |-> points, exc |-> "none"]>>
        /\ filled = HasPoints(points)

DoEnvelop ==
    /\ hist # <<>>
    /\ Len(hist) <= MaxOps
    /\ \E points \in EnvelopArgs :
          LET r == envelop(box, points) IN
          /\ box' = r.box
          /\ hist' = Append(hist, [op |-> "envelop", arg |-> points,
                                   exc |-> r.exc])
          /\ filled' = (filled \/ HasPoints(points))
    /\ prev' = box
    /\ BBoxFrame

DoTranslate ==
    /\ hist # <<>>
    /\ Len(hist) <= MaxOps
    /\ \E coords \in TranslateArgs :
          /\ box' = translate(box, coords)
          /\ hist' = Append(hist, [op |-> "translate", arg |-> coords,
                                   exc |-> "none"])
    /\ prev' = box
    /\ UNCHANGED filled
    /\ BBoxFrame

DoRotate ==
    /\ hist # <<>>
    /\ Len(hist) <= MaxOps
    /\ \E angle \in Angles :
          /\ box' = rotate(box, angle)
          /\ hist' = Append(hist, [op |-> "rotate", arg |-> angle,
                                   exc |-> "none"])
    /\ prev' = box
    /\ UNCHANGED filled
    /\ BBoxFrame

DoReset ==
    /\ hist # <<>>
    /\ Len(hist) <= MaxOps
    /\ box' = reset
    /\ hist' = Append(hist, [op |-> "reset", arg |-> <<>>, exc |-> "none"])
    /\ prev' = box
    /\ filled' = FALSE
    /\ BBoxFrame

BBoxNext == DoEnvelop \/ DoTranslate \/ DoRotate \/ DoReset

-----------------------------------------------------------------------------
(* Typed schema: KicadExpr.from_list for the Schematic record               *)
(* (edea/types/base.py, edea/types/schematic/schematic.py).  An element of  *)
(* the list is a string (its quotes stripped), a nested list whose first    *)
(* item is its keyword, or True.                                             *)

SupportedVersion == 20211123

MaxExpr == 3

TAtom(s) == [a |-> "atom", s |-> s]

TList(kw, args) == [a |-> "list", kw |-> W(kw), args |-> args]

TTrue == [a |-> "true"]

TErr(err, loc) == [err |-> err, loc |-> loc]

\* The fields of Schematic in declaration order (lines 274-307).
SchematicFields ==
    << "version", "generator", "uuid", "title_block", "paper", "lib_symbols",
       "sheet", "symbol", "polyline", "wire", "bus", "image", "junction",
       "no_connect", "bus_entry", "text", "label", "hierarchical_label",
       "global_label", "sheet_instances", "symbol_instances", "bus_alias",
       "kicad_expr_tag_name" >>

IsField(kw) == \E i \in 1..Len(SchematicFields) : W(SchematicFields[i]) = kw

\* How from_list treats a field, from its declared type.
FieldKind(kw) ==
    IF kw = W("version") THEN "int"
    ELSE IF kw \in {W("generator"), W("kicad_expr_tag_name")} THEN "str"
    ELSE IF kw = W("uuid") THEN "UUID"
    ELSE IF kw = W("paper") THEN "union"
    ELSE IF kw \in {W("title_block"), W("lib_symbols"), W("sheet_instances"),
                    W("symbol_instances")} THEN "record"
    ELSE "record_list"

\* _get_args, lines 118-125: the leading run of items that are not lists
RECURSIVE leading_args(_)
leading_args(expr) ==
    IF expr = <<>> \/ Head(expr).a = "list" THEN <<>>
    ELSE <<Head(expr)>> \o leading_args(Tail(expr))

\* _get_args, lines 127-135
kwarg_list(rest) ==
    [i \in 1..Len(rest) |->
        IF rest[i].a = "list"
        THEN [kw |-> rest[i].kw, arg |-> rest[i].args]
        ELSE [kw |-> rest[i].s, arg |-> <<TTrue>>]]

\* _get_args, lines 140-145: duplicates collected, first occurrence's place kept
RECURSIVE collect_kwargs(_, _)
collect_kwargs(list, kwargs) ==
    IF list = <<>> THEN kwargs
    ELSE LET e == Head(list) IN
         IF \E i \in 1..Len(kwargs) : kwargs[i].kw = e.kw
         THEN collect_kwargs(Tail(list),
                [i \in 1..Len(kwargs) |->
                    IF kwargs[i].kw = e.kw
                    THEN [kwargs[i] EXCEPT !.exp = Append(@, e.arg)]
                    ELSE kwargs[i]])
         ELSE collect_kwargs(Tail(list),
                Append(kwargs, [kw |-> e.kw, exp |-> <<e.arg>>]))

_get_args(expr) ==
    LET args == leading_args(expr)
        rest == SubSeq(expr, Len(args) + 1, Len(expr))
    IN  [args |-> args, kwargs |-> collect_kwargs(kwarg_list(rest), <<>>)]

KwargsHas(kwargs, kw) == \E i \in 1..Len(kwargs) : kwargs[i].kw = kw

KwargsGet(kwargs, kw) ==
    kwargs[CHOOSE i \in 1..Len(kwargs) : kwargs[i].kw = kw].exp

\* pydantic's int coercion followed by Schematic.check_version
version_ok(v) ==
    /\ v.a = "atom"
    /\ IsIntToken(v.s)
    /\ IntOf(v.s).i = SupportedVersion

\* uuid.UUID(token) accepts the token: a word spelled "uuid:..." stands for
\* a well-formed identifier.
IsUUIDToken(tok) == Len(tok) = 2 /\ tok[1] = "uuid:"

\* An item a nested record cannot take: a keyword none of its fields has.
Bogus(e) == e.a = "list" /\ e.kw = W("bogus")

\* field_type.from_list(e) of a nested record
sub_from_list(e) ==
    IF \E i \in 1..Len(e) : Bogus(e[i]) THEN TErr("KeyError", {})
    ELSE TErr("ok", {})

RECURSIVE first_failure(_)
first_failure(rs) ==
    IF rs = <<>> THEN TErr("ok", {})
    ELSE IF Head(rs).err # "ok" THEN Head(rs)
    ELSE first_failure(Tail(rs))

PaperFormats ==
    { W("A0"), W("A1"), W("A2"), W("A3"), W("A4"), W("A5"), W("A"), W("B"),
      W("C"), W("D"), W("E"), W("USLetter"), W("USLegal"), W("USLedger") }

\* the members of Union[Paper, PaperUser] in declaration order, and the
\* fields of each in declaration order
PaperMembers == <<"Paper", "PaperUser">>

member_fields(member) ==
    IF member = "Paper" THEN <<"format", "orientation">>
    ELSE <<"format", "width", "height", "kicad_expr_tag_name">>

\* a value a field of the member takes: what pydantic validates
field_value_ok(member, name, v) ==
    IF member = "Paper"
    THEN IF name = "format" THEN v.a = "atom" /\ v.s \in PaperFormats
         ELSE v.a = "atom" /\ v.s \in {W("portrait"), <<>>}
    ELSE IF name = "format" THEN v.a = "atom" /\ v.s = W("User")
         ELSE IF name = "kicad_expr_tag_name"
         THEN v.a = "atom" /\ v.s = W("paper")
         ELSE v.a = "true" \/ (v.a = "atom" /\ IsFloatToken(v.s))

\* lines 45-102 inside the member's from_list, one keyword: the field looked
\* up, the one item asked for, then field_type(*exp[0])
member_kwarg(member, kw, exp) ==
    IF \A i \in 1..Len(member_fields(member)) : W(member_fields(member)[i]) # kw
    THEN TErr("KeyError", {})
    ELSE IF Len(exp) # 1 THEN TErr("SyntaxError", {})
    ELSE IF Len(exp[1]) # 1 THEN TErr("SyntaxError", {})
    ELSE IF member = "Paper"
    THEN IF field_value_ok(member, IF kw = W("format") THEN "format"
                                   ELSE "orientation", exp[1][1])
         THEN TErr("ok", {}) ELSE TErr("ValueError", {})
    ELSE IF kw \in {W("format"), W("kicad_expr_tag_name")}
    THEN TErr("TypeError", {})
    ELSE IF exp[1][1].a = "list" THEN TErr("TypeError", {})
    ELSE IF field_value_ok(member, "width", exp[1][1]) THEN TErr("ok", {})
    ELSE TErr("ValueError", {})

\* sft.from_list(exp[0]) for a member of the paper union: _get_args, the
\* loop over the keywords, then cls(*parsed_args, **kwargs)
paper_member(member, args) ==
    Only({ Only({ IF failed.err # "ok" THEN failed
                  ELSE IF Len(got.args) > Len(member_fields(member))
                  THEN TErr("TypeError", {})
                  ELSE IF \E i \in 1..Len(got.args) :
                             KwargsHas(got.kwargs, W(member_fields(member)[i]))
                  THEN TErr("TypeError", {})
                  ELSE Only({ IF bad = {} THEN TErr("ok", {})
                              ELSE TErr("ValidationError", bad) :
                              bad \in {{member_fields(member)[i] :
                                          i \in {j \in 1..Len(got.args) :
                                                   ~field_value_ok(member,
                                                        member_fields(member)[j],
                                                        got.args[j])}}} }) :
                  failed \in {first_failure(
                                 [i \in 1..Len(got.kwargs) |->
                                     member_kwarg(member, got.kwargs[i].kw,
                                                  got.kwargs[i].exp)])} }) :
           got \in {_get_args(args)} })

\* the errors the try of lines 78-88 catches
Caught == {"ValidationError", "TypeError"}

\* lines 78-90: the members tried, in order, each with its outcome; the loop
\* ends at the first member that succeeds or raises an error not caught
RECURSIVE union_tries(_, _)
union_tries(sub_fields, args) ==
    IF sub_fields = <<>> THEN <<>>
    ELSE Only({ <<[member |-> Head(sub_fields), out |-> made]>>
                \o (IF made.err \in Caught
                    THEN union_tries(Tail(sub_fields), args) ELSE <<>>) :
                made \in {paper_member(Head(sub_fields), args)} })

\* lines 78-93 raising the last error recorded, not the first
union_field_last_error(args) ==
    Only({ tries[Len(tries)].out :
           tries \in {union_tries(PaperMembers, args)} })

\* lines 78-93: the members in order, the first recorded error if all fail
union_field(args) ==
    Only({ IF tries[Len(tries)].out.err \in Caught
           THEN tries[1].out
           ELSE tries[Len(tries)].out :
           tries \in {union_tries(PaperMembers, args)} })

\* One pass of the loop of lines 45-102, for keyword kw with arguments exp.
field_step(kw, exp) ==
    IF ~IsField(kw) THEN TErr("KeyError", {})
    ELSE LET kind == FieldKind(kw) IN
         IF kind = "record_list"
         THEN first_failure([i \in 1..Len(exp) |-> sub_from_list(exp[i])])
         ELSE IF Len(exp) # 1 THEN TErr("SyntaxError", {})
         ELSE IF kind = "record" THEN sub_from_list(exp[1])
         ELSE IF kind = "union" THEN union_field(exp[1])
         ELSE IF Len(exp[1]) # 1 THEN TErr("SyntaxError", {})
         ELSE IF kind = "int"
              THEN IF exp[1][1].a = "true"
                      \/ (exp[1][1].a = "atom" /\ IsIntToken(exp[1][1].s))
                   THEN TErr("ok", {})
                   ELSE IF exp[1][1].a = "list" THEN TErr("TypeError", {})
                   ELSE TErr("ValueError", {})
         ELSE IF kind = "UUID"
              THEN IF exp[1][1].a = "atom" /\ IsUUIDToken(exp[1][1].s)
                   THEN TErr("ok", {})
                   ELSE IF exp[1][1].a = "atom" THEN TErr("ValueError", {})
                   ELSE TErr("TypeError", {})
         ELSE TErr("ok", {})

\* The value the field loop has stored for version, as the constructor sees it
version_kwarg_ok(kwargs) ==
    LET exp == KwargsGet(kwargs, W("version")) IN version_ok(exp[1][1])

\* cls(*parsed_args, **kwargs), line 104
construct(args, kwargs) ==
    IF Len(args) > Len(SchematicFields) THEN TErr("TypeError", {})
    ELSE IF \E i \in 1..Len(args) : KwargsHas(kwargs, W(SchematicFields[i]))
    THEN TErr("TypeError", {})
    ELSE LET bad ==
               (IF Len(args) >= 1 /\ ~version_ok(args[1])
                THEN {"version"} ELSE {})
               \cup
               (IF KwargsHas(kwargs, W("version")) /\ ~version_kwarg_ok(kwargs)
                THEN {"version"} ELSE {})
               \cup
               (IF Len(args) >= 3 /\ ~IsUUIDToken(args[3].s)
                THEN {"uuid"} ELSE {})
         IN  IF bad = {} THEN TErr("ok", {})
             ELSE TErr("ValidationError", bad)

\* ---- the lists tried and the steps of from_list

V6 == <<"2", "0", "2", "1", "1", "1", "2", "3">>

V5 == <<"2", "0", "2", "0", "0", "1", "0", "1">>

V7 == <<"2", "0", "2", "3", "0", "1", "2", "1">>

TElems ==
    { TAtom(W("x")),
      TList("version", <<TAtom(V6)>>),
      TList("version", <<TAtom(V5)>>),
      TList("version", <<TAtom(V7)>>),
      TList("version", <<TAtom(W("abc"))>>),
      TList("version", <<>>),
      TList("generator", <<TAtom(W("eeschema"))>>),
      TList("generator", <<>>),
      TList("bogus", <<TAtom(W("1"))>>),
      TList("sheet", <<TList("at", <<TAtom(W("1")), TAtom(W("2"))>>)>>),
      TList("sheet", <<TList("bogus", <<>>)>>),
      TList("paper", <<TAtom(W("Letter"))>>),
      TList("paper", <<TAtom(W("A4"))>>),
      TList("paper", <<TAtom(W("User")), TAtom(W("2")), TAtom(W("1"))>>),
      TList("paper", <<TAtom(W("User")), TAtom(W("abc")), TAtom(W("1"))>>),
      TList("paper", <<TList("width", <<TAtom(W("2"))>>)>>) }

TypedIdle ==
    /\ t_expr = <<>>
    /\ t_pc = "idle"
    /\ t_args = <<>>
    /\ t_kwargs = <<>>
    /\ t_idx = 0
    /\ t_touched = <<>>
    /\ t_result = TErr("none", {})
    /\ t_tried = <<>>

TypedInit ==
    /\ t_expr \in UNION { [1..n -> TElems] : n \in 0..MaxExpr }
    /\ t_pc = "call"
    /\ t_args = <<>>
    /\ t_kwargs = <<>>
    /\ t_idx = 0
    /\ t_touched = <<>>
    /\ t_result = TErr("none", {})
    /\ t_tried = <<>>

\* line 35
get_args ==
    /\ t_pc = "call"
    /\ t_args' = _get_args(t_expr).args
    /\ t_kwargs' = _get_args(t_expr).kwargs
    /\ t_pc' = "version"
    /\ UNCHANGED <<t_expr, t_idx, t_touched, t_result, t_tried>>
    /\ TypedFrame

\* lines 41-42 left out: from_list goes straight to the field loop
early_version_left_out ==
    /\ t_pc = "version"
    /\ t_pc' = "fields"
    /\ UNCHANGED <<t_expr, t_args, t_kwargs, t_idx, t_touched, t_result,
                   t_tried>>
    /\ TypedFrame

\* lines 41-42: cls(version=parsed_kwargs["version"][0][0])
early_version ==
    /\ t_pc = "version"
    /\ LET r == IF ~KwargsHas(t_kwargs, W("version")) THEN TErr("ok", {})
                ELSE LET exp == KwargsGet(t_kwargs, W("version")) IN
                     IF exp[1] = <<>> THEN TErr("IndexError", {})
                     ELSE IF version_ok(exp[1][1]) THEN TErr("ok", {})
                     ELSE TErr("ValidationError", {"version"})
       IN  IF r.err = "ok"
           THEN t_pc' = "fields" /\ UNCHANGED t_result
           ELSE t_pc' = "done" /\ t_result' = r
    /\ UNCHANGED <<t_expr, t_args, t_kwargs, t_idx, t_touched, t_tried>>
    /\ TypedFrame

\* lines 45-102, one keyword
field_loop ==
    /\ t_pc = "fields"
    /\ t_idx < Len(t_kwargs)
    /\ LET e == t_kwargs[t_idx + 1]
           r == field_step(e.kw, e.exp)
       IN  /\ t_touched' = Append(t_touched, e.kw)
           /\ t_tried' = IF IsField(e.kw) /\ FieldKind(e.kw) = "union"
                             /\ Len(e.exp) = 1
                          THEN union_tries(PaperMembers, e.exp[1])
                          ELSE t_tried
           /\ t_idx' = t_idx + 1
           /\ IF r.err = "ok"
              THEN UNCHANGED <<t_pc, t_result>>
              ELSE t_pc' = "done" /\ t_result' = r
    /\ UNCHANGED <<t_expr, t_args, t_kwargs>>
    /\ TypedFrame

\* line 104
construct_record ==
    /\ t_pc = "fields"
    /\ t_idx = Len(t_kwargs)
    /\ t_result' = construct(t_args, t_kwargs)
    /\ t_pc' = "done"
    /\ UNCHANGED <<t_expr, t_args, t_kwargs, t_idx, t_touched, t_tried>>
    /\ TypedFrame

TypedNext == get_args \/ early_version \/ field_loop \/ construct_record

-----------------------------------------------------------------------------
(* Project.parse and Project._parse_sheet (edea/edea.py)                     *)

\* s[1:-1]
Inner(s) == IF Len(s) <= 2 THEN <<>> ELSE SubSeq(s, 2, Len(s) - 1)

\* Position of the last "/" of a path, 0 when it has none
LastSlash(path) ==
    LET at == {i \in 1..Len(path) : path[i] = "/"} IN
    IF at = {} THEN 0 ELSE CHOOSE i \in at : \A k \in at : k <= i

\* os.path.basename
basename(path) == SubSeq(path, LastSlash(path) + 1, Len(path))

RECURSIVE rstrip_slash(_)
rstrip_slash(path) ==
    IF path # <<>> /\ path[Len(path)] = "/"
    THEN rstrip_slash(SubSeq(path, 1, Len(path) - 1))
    ELSE path

\* os.path.dirname
dirname(path) ==
    LET head == SubSeq(path, 1, LastSlash(path)) IN
    IF rstrip_slash(head) = <<>> THEN head ELSE rstrip_slash(head)

\* os.path.join of two parts
join(a, b) ==
    IF b # <<>> /\ b[1] = "/" THEN b
    ELSE IF a = <<>> \/ a[Len(a)] = "/" THEN a \o b
    ELSE a \o <<"/">> \o b

\* key in mapping, mapping[key]
Has(d, key) == \E i \in 1..Len(d) : d[i].key = key

Get(d, key) == d[CHOOSE i \in 1..Len(d) : d[i].key = key].item

\* hasattr(expr, name): only AttributeError is swallowed
hasattr(n, name) == __getattr__(n, name).r # "AttributeError"

\* expr.<name>[0] where the lookup gives one node: its first child
first_of(n, name) ==
    Only({ IF got.r \in {"AttributeError", "IndexError"} THEN [st |-> got.r]
           ELSE IF got.r = "map" THEN [st |-> "KeyError"]
           ELSE IF got.r = "list" THEN [st |-> "ok", v |-> got.items[1]]
           ELSE IF ~IsNode(got.item) THEN [st |-> "ok", v |-> W(got.item.s[1])]
           ELSE IF got.item.data = <<>> THEN [st |-> "IndexError"]
           ELSE [st |-> "ok", v |-> got.item.data[1]] :
           got \in {__getattr__(n, name)} })

\* The version test with its bound one lower
pre_6_0_0_off_by_one(v) == v.k = "int" /\ v.i < SupportedVersion - 1

\* sch.version[0] < 20211123 (parse, line 294)
pre_6_0_0(v) ==
    IF v.k = "int" THEN v.i < SupportedVersion
    ELSE (IF v.neg THEN 0 - v.m ELSE v.m) < SupportedVersion * Pow10(v.e)

\* One pass of the loop over sch.symbol_instances (lines 299-311)
record_instance(instances, path) ==
    IF ~IsNode(path)
    THEN [st |-> IF IsStr(path) THEN "IndexError" ELSE "TypeError",
          d |-> instances]
    ELSE IF Len(path.data) < 2
    THEN [st |-> "IndexError", d |-> instances]
    ELSE IF ~IsNode(path.data[2])
    THEN [st |-> IF IsStr(path.data[2]) THEN "IndexError" ELSE "TypeError",
          d |-> instances]
    ELSE IF path.data[2].data = <<>>
    THEN [st |-> "IndexError", d |-> instances]
    ELSE IF ~IsStr(path.data[2].data[1]) \/ ~IsStr(path.data[1])
    THEN [st |-> "TypeError", d |-> instances]
    ELSE LET reference == Inner(path.data[2].data[1].s)
             symbol_id == basename(rstrip_slash(Inner(path.data[1].s)))
         IN  IF reference = <<>> THEN [st |-> "IndexError", d |-> instances]
             ELSE IF reference[1] = "#" THEN [st |-> "ok", d |-> instances]
             ELSE IF symbol_id = <<>>
             THEN [st |-> "IndexError", d |-> instances]
             ELSE IF Has(instances, symbol_id)
             THEN [st |-> "ok",
                   d |-> DictSet(instances, symbol_id,
                                 Append(Get(instances, symbol_id), reference))]
             ELSE [st |-> "ok",
                   d |-> DictSet(instances, symbol_id, <<reference>>)]

RECURSIVE record_instances(_, _)
record_instances(instances, paths) ==
    IF paths = <<>> THEN [st |-> "ok", d |-> instances]
    ELSE LET r == record_instance(instances, Head(paths)) IN
         IF r.st # "ok" THEN r
         ELSE record_instances(r.d, Tail(paths))

\* The sheets _parse_sheet walks (lines 328-337)
sheets_of(sch) ==
    LET got == __getattr__(sch, W("sheet")) IN
    IF got.r = "AttributeError" THEN [st |-> "ok", sheets |-> <<>>]
    ELSE IF got.r = "IndexError" THEN [st |-> "IndexError"]
    ELSE IF got.r = "map" THEN [st |-> "KeyError"]
    ELSE IF got.r = "list" THEN [st |-> "ok", sheets |-> got.items]
    ELSE IF ~IsNode(got.item) THEN [st |-> "AttributeError"]
    ELSE IF got.item.data = <<>> THEN [st |-> "IndexError"]
    ELSE IF ~IsNode(got.item.data[1]) THEN [st |-> "AttributeError"]
    ELSE IF got.item.data[1].name # W("sheet")
    THEN [st |-> "ok", sheets |-> <<got.item>>]
    ELSE [st |-> "ok", sheets |-> got.item.data]

sheet_file_keys == <<W("Sheet file"), W("Sheetfile"), W("Fichier de feuille")>>

\* The sub-sheet file a sheet names (lines 339-354)
sheet_file_of(sheet) ==
    LET prop == __getattr__(sheet, W("property"))
        found == IF prop.r = "map"
                 THEN {i \in 1..Len(sheet_file_keys) :
                          Has(prop.entries, sheet_file_keys[i])}
                 ELSE {}
    IN  IF prop.r \in {"AttributeError", "IndexError"} THEN [st |-> prop.r]
        ELSE IF found = {} THEN [st |-> "ValueError"]
        ELSE LET key == sheet_file_keys[SetMin(found)]
                 item == Get(prop.entries, key)
             IN  IF Len(item.data) < 2 THEN [st |-> "IndexError"]
                 ELSE IF ~IsStr(item.data[2]) THEN [st |-> "AttributeError"]
                 ELSE [st |-> "ok", file |-> strip(item.data[2].s)]

\* The entries `for path in sch.symbol_instances` visits
instance_paths(sch) ==
    LET got == __getattr__(sch, W("symbol_instances")) IN
    IF got.r = "AttributeError" THEN [st |-> "ok", paths |-> <<>>]
    ELSE IF got.r = "IndexError" THEN [st |-> "IndexError"]
    ELSE IF got.r = "list" THEN [st |-> "ok", paths |-> got.items]
    ELSE IF got.r = "map"
    THEN [st |-> "ok",
          paths |-> [i \in 1..Len(got.entries) |->
                        [k |-> "str", s |-> got.entries[i].key]]]
    ELSE IF IsNode(got.item) THEN [st |-> "ok", paths |-> got.item.data]
    ELSE [st |-> "ok", paths |-> <<got.item>>]

\* The head of _parse_sheet (lines 322-337): the maps it writes and the
\* sheets it is about to walk
enter_sheet(sch, file_name, schematics, fn) ==
    LET uuid == first_of(sch, W("uuid")) IN
    IF uuid.st # "ok" THEN [st |-> uuid.st, schematics |-> schematics,
                            fn |-> fn]
    ELSE LET sheets == sheets_of(sch)
             schematics2 == DictSet(schematics, uuid.v, file_name)
             fn2 == DictSet(fn, basename(file_name), uuid.v)
         IN  IF sheets.st # "ok"
             THEN [st |-> sheets.st, schematics |-> schematics2, fn |-> fn2]
             ELSE [st |-> "ok", schematics |-> schematics2, fn |-> fn2,
                   sheets |-> sheets.sheets]

-----------------------------------------------------------------------------
(* Project component: the project directories tried and the steps of parse  *)

sch_file_name == <<"proj", "/", "top.kicad_sch">>

pcb_file_name == <<"proj", "/", "top.kicad_pcb">>

\* Files are held as the tree from_str gives for their text.
Node(tag, data) ==
    parsed([Expr(Variant(tag, <<>>, <<>>), tag) EXCEPT !.data = data])

Quoted(chars) == [k |-> "str", s |-> <<"\"">> \o chars \o <<"\"">>]

\* (kicad_sch (version v) (uuid u) body...)
Sch(version, uuid, body) ==
    Node(W("kicad_sch"),
         <<Node(W("version"), <<atom(version)>>),
           Node(W("uuid"), <<atom(W(uuid))>>)>> \o body)

\* (sheet (at 1 2) (property "Sheet name" "n") (property "Sheet file" "f"))
Sheet(name, file) ==
    Node(W("sheet"),
         <<Node(W("at"), <<atom(W("1")), atom(W("2"))>>),
           Node(W("property"), <<Quoted(W("Sheet name")), Quoted(W(name))>>),
           Node(W("property"), <<Quoted(W("Sheet file")), Quoted(W(file))>>)>>)

\* A sheet whose file is given by a path
SheetAt(name, file) ==
    Node(W("sheet"),
         <<Node(W("at"), <<atom(W("1")), atom(W("2"))>>),
           Node(W("property"), <<Quoted(W("Sheet name")), Quoted(W(name))>>),
           Node(W("property"), <<Quoted(W("Sheet file")), Quoted(file)>>)>>)

\* (path "p" (reference "r"))
Path(path, ref) ==
    Node(W("path"), <<Quoted(path), Node(W("reference"), <<Quoted(ref)>>)>>)

Instances ==
    { <<>>,
      <<Node(W("symbol_instances"), <<Path(<<"/", "u1">>, <<"R", "1">>)>>)>>,
      <<Node(W("symbol_instances"),
             <<Path(<<"/", "u2">>, <<"#", "PWR01">>),
               Path(<<"/", "u1">>, <<"R", "1">>),
               Path(<<"/", "s1", "/", "u1">>, <<"R", "2">>)>>)>> }

Pcb == Node(W("kicad_pcb"), <<Node(W("version"), <<atom(V6)>>)>>)

\* The files beside the root schematic, by sheet layout
SheetLayouts ==
    { [body |-> <<>>, files |-> <<>>],
      [body |-> <<Sheet("s", "sub.kicad_sch")>>,
       files |-> <<[key |-> <<"proj", "/", "sub.kicad_sch">>,
                    item |-> Sch(V6, "uuid-sub", <<>>)]>>],
      [body |-> <<Sheet("s", "sub.kicad_sch"), Sheet("t", "sub.kicad_sch")>>,
       files |-> <<[key |-> <<"proj", "/", "sub.kicad_sch">>,
                    item |-> Sch(V6, "uuid-sub", <<>>)]>>],
      [body |-> <<Sheet("s", "a.kicad_sch")>>,
       files |-> <<[key |-> <<"proj", "/", "a.kicad_sch">>,
                    item |-> Sch(V5, "uuid-a",
                                 <<Sheet("b", "b.kicad_sch")>>)],
                   [key |-> <<"proj", "/", "b.kicad_sch">>,
                    item |-> Sch(V6, "uuid-b", <<>>)]>>],
      [body |-> <<Sheet("s", "missing.kicad_sch")>>, files |-> <<>>],
      [body |-> <<SheetAt("s", <<"a", "/", "sub.kicad_sch">>),
                  SheetAt("t", <<"b", "/", "sub.kicad_sch">>)>>,
       files |-> <<[key |-> <<"proj", "/", "a", "/", "sub.kicad_sch">>,
                    item |-> Sch(V6, "uuid-a", <<>>)],
                   [key |-> <<"proj", "/", "b", "/", "sub.kicad_sch">>,
                    item |-> Sch(V6, "uuid-b", <<>>)]>>],
      [body |-> <<Sheet("s", "sub.kicad_sch")>>,
       files |-> <<[key |-> <<"proj", "/", "sub.kicad_sch">>,
                    item |-> Sch(V6, "uuid-sub",
                                 <<Sheet("s", "sub.kicad_sch"),
                                   Sheet("t", "top.kicad_sch")>>)]>>] }

\* (symbol (lib_id "Device:R") (in_bom yes) (uuid u) (property ...) ...)
Part(uuid, ref) ==
    Node(W("symbol"),
         <<Node(W("lib_id"), <<Quoted(W("Device:R"))>>),
           Node(W("in_bom"), <<atom(W("yes"))>>),
           Node(W("uuid"), <<atom(W(uuid))>>),
           Node(W("property"), <<Quoted(W("Reference")), Quoted(ref)>>),
           Node(W("property"), <<Quoted(W("Value")), Quoted(W("A"))>>),
           Node(W("property"), <<Quoted(W("Footprint")), Quoted(W("F"))>>)>>)

\* The symbols of a sheet: a resistor and a power flag
Parts == <<Part("u1", <<"R", "1">>), Part("u2", <<"#", "PWR01">>)>>

\* A sheet whose file is given under the property name key
SheetKeyed(name, key, file) ==
    Node(W("sheet"),
         <<Node(W("at"), <<atom(W("1")), atom(W("2"))>>),
           Node(W("property"), <<Quoted(W("Sheet name")), Quoted(W(name))>>),
           Node(W("property"), <<Quoted(W(key)), Quoted(file)>>)>>)

\* Sheet layouts whose schematics hold symbols: one sheet block, two sheet
\* blocks, two sheet blocks under a localized key, two in a sub-directory
PartLayouts ==
    { [body |-> Parts \o <<Sheet("s", "sub.kicad_sch")>>,
       files |-> <<[key |-> <<"proj", "/", "sub.kicad_sch">>,
                    item |-> Sch(V6, "uuid-sub", Parts)]>>] }
    \cup
    { [body |-> Parts \o <<SheetKeyed("s", key, dir \o <<"a.kicad_sch">>),
                           SheetKeyed("t", key, dir \o <<"b.kicad_sch">>)>>,
       files |-> <<[key |-> <<"proj", "/">> \o dir \o <<"a.kicad_sch">>,
                    item |-> Sch(V6, "uuid-a", Parts)],
                   [key |-> <<"proj", "/">> \o dir \o <<"b.kicad_sch">>,
                    item |-> Sch(V6, "uuid-b", Parts)]>>] :
        key \in {"Sheet file", "Sheetfile", "Fichier de feuille"},
        dir \in {<<>>, <<"sub", "/">>} }

\* (kicad_pcb (version v) (layers (0 "F.Cu" signal) (31 "B.Cu" signal)))
PcbLayers ==
    Node(W("kicad_pcb"),
         <<Node(W("version"), <<atom(V6)>>),
           Node(W("layers"),
                <<Node(W("0"), <<Quoted(<<"F", ".Cu">>), atom(W("signal"))>>),
                  Node(W("31"), <<Quoted(<<"B", ".Cu">>),
                                  atom(W("signal"))>>)>>)>>)

MaxProjects == 2

V6m1 == <<"2", "0", "2", "1", "1", "1", "2", "2">>

RootVersions == {V5, V6m1, V6, V7}

\* Directories: a root schematic, its sub-sheets, and maybe the PCB
FileSystems ==
    { <<[key |-> sch_file_name,
         item |-> Sch(v, "uuid-top", lay.body \o inst)]>>
      \o lay.files
      \o [i \in 1..Len(pcb) |-> [key |-> pcb_file_name, item |-> pcb[i]]] :
        v \in RootVersions, inst \in Instances,
        lay \in SheetLayouts \cup PartLayouts,
        pcb \in {<<>>, <<Pcb>>, <<PcbLayers>>} }

NoSch == [k |-> "none"]

JRes(st) == [st |-> st]

NoFirst == [st |-> "none"]

NoMeta == [st |-> "none"]

ProjIdle ==
    /\ fs = <<>>
    /\ j_pc = "idle"
    /\ j_opened = <<>>
    /\ j_symbol_instances = <<>>
    /\ j_schematics = <<>>
    /\ j_fn_to_uuid = <<>>
    /\ j_sch = NoSch
    /\ j_top = NoSch
    /\ j_stack = <<>>
    /\ j_result = JRes("none")
    /\ j_made = 0
    /\ j_first = NoFirst
    /\ j_meta = NoMeta

\* Project(sch_file_name, pcb_file_name) in a fresh interpreter
ProjInit ==
    /\ fs \in FileSystems
    /\ j_pc = "start"
    /\ j_opened = <<>>
    /\ j_symbol_instances = <<>>
    /\ j_schematics = <<>>
    /\ j_fn_to_uuid = <<>>
    /\ j_sch = NoSch
    /\ j_top = NoSch
    /\ j_stack = <<>>
    /\ j_result = JRes("none")
    /\ j_made = 1
    /\ j_first = NoFirst
    /\ j_meta = NoMeta

\* open(name) and from_str(read()): the tree, or the failure
read_file(name) ==
    IF ~Has(fs, name) THEN JRes("FileNotFoundError")
    ELSE [st |-> "ok", expr |-> Get(fs, name)]

\* parse() ends with this exception
Fail(st) ==
    /\ j_result' = JRes(st)
    /\ j_pc' = "done"

\* parse, lines 291-292
open_schematic ==
    /\ j_pc = "start"
    /\ j_opened' = Append(j_opened, sch_file_name)
    /\ LET r == read_file(sch_file_name) IN
       IF r.st # "ok"
       THEN Fail(r.st) /\ UNCHANGED j_sch
       ELSE /\ j_sch' = r.expr
            /\ j_pc' = "version"
            /\ UNCHANGED j_result
    /\ UNCHANGED <<fs, j_symbol_instances, j_schematics, j_fn_to_uuid,
                   j_top, j_stack>>
    /\ UNCHANGED <<j_made, j_first, j_meta>>
    /\ ProjFrame

\* parse, lines 294-295
check_version ==
    /\ j_pc = "version"
    /\ LET v == first_of(j_sch, W("version")) IN
       IF v.st # "ok" THEN Fail(v.st)
       ELSE IF IsNode(v.v) \/ IsStr(v.v) \/ v.v.k \notin {"int", "float"}
       THEN Fail("TypeError")
       ELSE IF pre_6_0_0(v.v) THEN Fail("VersionError")
       ELSE j_pc' = "instances" /\ UNCHANGED j_result
    /\ UNCHANGED <<fs, j_opened, j_symbol_instances, j_schematics,
                   j_fn_to_uuid, j_sch, j_top, j_stack>>
    /\ UNCHANGED <<j_made, j_first, j_meta>>
    /\ ProjFrame

\* parse, lines 298-311
symbol_instances_loop ==
    /\ j_pc = "instances"
    /\ LET ps == instance_paths(j_sch) IN
       IF ps.st # "ok"
       THEN Fail(ps.st) /\ UNCHANGED j_symbol_instances
       ELSE LET r == record_instances(j_symbol_instances, ps.paths) IN
            /\ j_symbol_instances' = r.d
            /\ IF r.st # "ok" THEN Fail(r.st)
               ELSE j_pc' = "top" /\ UNCHANGED j_result
    /\ UNCHANGED <<fs, j_opened, j_schematics, j_fn_to_uuid, j_sch, j_top,
                   j_stack>>
    /\ UNCHANGED <<j_made, j_first, j_meta>>
    /\ ProjFrame

\* parse, lines 313-314: self.top, and the call of _parse_sheet on the root
parse_top ==
    /\ j_pc = "top"
    /\ LET top == first_of(j_sch, W("uuid")) IN
       IF top.st # "ok"
       THEN /\ Fail(top.st)
            /\ UNCHANGED <<j_top, j_schematics, j_fn_to_uuid, j_stack>>
       ELSE LET e == enter_sheet(j_sch, sch_file_name, j_schematics,
                                 j_fn_to_uuid) IN
            /\ j_top' = top.v
            /\ j_schematics' = e.schematics
            /\ j_fn_to_uuid' = e.fn
            /\ IF e.st # "ok" THEN Fail(e.st) /\ UNCHANGED j_stack
               ELSE /\ j_stack' = <<e.sheets>>
                    /\ j_pc' = "sheets"
                    /\ UNCHANGED j_result
    /\ UNCHANGED <<fs, j_opened, j_symbol_instances, j_sch>>
    /\ UNCHANGED <<j_made, j_first, j_meta>>
    /\ ProjFrame

\* _parse_sheet: one pass of the loop over the sheets (lines 337-358)
parse_sheet ==
    /\ j_pc = "sheets"
    /\ j_stack # <<>>
    /\ Head(j_stack) # <<>>
    /\ LET sheet == Head(Head(j_stack))
           rest == <<Tail(Head(j_stack))>> \o Tail(j_stack)
           f == sheet_file_of(sheet)
       IN  IF f.st # "ok"
           THEN /\ Fail(f.st)
                /\ UNCHANGED <<j_opened, j_schematics, j_fn_to_uuid, j_stack>>
           ELSE IF Has(j_fn_to_uuid, basename(f.file))
           THEN /\ j_stack' = rest
                /\ UNCHANGED <<j_opened, j_schematics, j_fn_to_uuid, j_pc,
                               j_result>>
           ELSE LET name == join(dirname(sch_file_name), f.file)
                    r == read_file(name)
                IN  /\ j_opened' = Append(j_opened, name)
                    /\ IF r.st # "ok"
                       THEN /\ Fail(r.st)
                            /\ UNCHANGED <<j_schematics, j_fn_to_uuid,
                                           j_stack>>
                       ELSE LET e == enter_sheet(r.expr, f.file,
                                                 j_schematics, j_fn_to_uuid)
                            IN  /\ j_schematics' = e.schematics
                                /\ j_fn_to_uuid' = e.fn
                                /\ IF e.st # "ok"
                                   THEN Fail(e.st) /\ UNCHANGED j_stack
                                   ELSE /\ j_stack' = <<e.sheets>> \o rest
                                        /\ UNCHANGED <<j_pc, j_result>>
    /\ UNCHANGED <<fs, j_symbol_instances, j_sch, j_top>>
    /\ UNCHANGED <<j_made, j_first, j_meta>>
    /\ ProjFrame

\* _parse_sheet returns to its caller once its sheets are done
sheet_return ==
    /\ j_pc = "sheets"
    /\ j_stack # <<>>
    /\ Head(j_stack) = <<>>
    /\ j_stack' = Tail(j_stack)
    /\ j_pc' = IF Tail(j_stack) = <<>> THEN "pcb" ELSE "sheets"
    /\ UNCHANGED <<fs, j_opened, j_symbol_instances, j_schematics,
                   j_fn_to_uuid, j_sch, j_top, j_result>>
    /\ UNCHANGED <<j_made, j_first, j_meta>>
    /\ ProjFrame

\* parse, lines 317-318
open_pcb ==
    /\ j_pc = "pcb"
    /\ j_opened' = Append(j_opened, pcb_file_name)
    /\ Fail(read_file(pcb_file_name).st)
    /\ UNCHANGED <<fs, j_symbol_instances, j_schematics, j_fn_to_uuid,
                   j_sch, j_top, j_stack>>
    /\ UNCHANGED <<j_made, j_first, j_meta>>
    /\ ProjFrame

\* Project(sch_file_name, pcb_file_name) once more, after a parse() has
\* ended: schematics, fn_to_uuid and symbol_instances are attributes of the
\* class (lines 278-280), so the new object finds them as they are
new_project ==
    /\ j_pc = "done"
    /\ j_made < MaxProjects
    /\ j_made' = j_made + 1
    /\ j_first' = IF j_made = 1
                  THEN [st |-> j_result.st,
                        schematics |-> j_schematics,
                        fn_to_uuid |-> j_fn_to_uuid,
                        symbol_instances |-> j_symbol_instances]
                  ELSE j_first
    /\ j_pc' = "start"
    /\ j_opened' = <<>>
    /\ j_sch' = NoSch
    /\ j_top' = NoSch
    /\ j_stack' = <<>>
    /\ j_result' = JRes("none")
    /\ j_meta' = NoMeta
    /\ UNCHANGED <<fs, j_symbol_instances, j_schematics, j_fn_to_uuid>>
    /\ ProjFrame

-----------------------------------------------------------------------------
(* Schematic.to_sheet and Schematic.append (edea/edea.py).  Lengths are in  *)
(* thousandths of a millimetre.                                              *)

MaxSheets == 6

\* A schematic with one (hierarchical_label "name" (shape input)) per name
LabelSch(names) ==
    Node(W("kicad_sch"),
         <<Node(W("version"), <<atom(V6)>>)>>
         \o [i \in 1..Len(names) |->
                Node(W("hierarchical_label"),
                     <<Quoted(names[i]),
                       Node(W("shape"), <<atom(W("input"))>>)>>)])

\* self._sch.hierarchical_label and labels.keys() (lines 55-60): the labels
\* by name, or the error raised
labels_of(sch) ==
    LET got == __getattr__(sch, W("hierarchical_label")) IN
    IF got.r = "AttributeError" THEN [st |-> "ok", labels |-> <<>>]
    ELSE IF got.r = "map" THEN [st |-> "ok", labels |-> got.entries]
    ELSE IF got.r = "IndexError" THEN [st |-> "IndexError"]
    ELSE [st |-> "AttributeError"]

\* The pins of lines 80-85 need label[0] and label.shape[0] of every label
RECURSIVE pins_of(_)
pins_of(labels) ==
    IF labels = <<>> THEN [st |-> "ok", pins |-> <<>>]
    ELSE LET shape == first_of(Head(labels).item, W("shape"))
             rest == pins_of(Tail(labels))
         IN  IF shape.st # "ok" THEN [st |-> shape.st]
             ELSE IF rest.st # "ok" THEN rest
             ELSE [st |-> "ok",
                   pins |-> <<[name |-> Head(labels).item.data[1],
                               shape |-> shape.v]>> \o rest.pins]

\* Expr(typ, *args) with arguments that are no nodes
Expr_of(typ, args) == [Expr("Expr", typ) EXCEPT !.data = args]

\* Schematic.to_sheet(sheet_name, file_name, pos_x, pos_y): the bounding box
\* and the sheet block, or the error raised
to_sheet(sch, pos_x, pos_y, uuid) ==
    LET l == labels_of(sch) IN
    IF l.st # "ok" THEN [st |-> l.st]
    ELSE LET len_longest_label ==
                 IF l.labels = <<>> THEN 0
                 ELSE SetMax({Len(l.labels[i].key) : i \in 1..Len(l.labels)})
             lbl_space == (IF len_longest_label > 4 THEN len_longest_label
                           ELSE 4) + 2
             sheet_width == lbl_space * 1270
             sheet_height == (Len(l.labels) + 1) * 2540
             bbox == envelop(reset,
                             Array(<<<<pos_x, pos_y>>,
                                     <<pos_x + sheet_height,
                                       pos_y + sheet_width>>>>)).box
             pins == pins_of(l.labels)
         IN  IF pins.st # "ok" THEN [st |-> pins.st]
             ELSE [st |-> "ok", box |-> bbox,
                   sheet |-> [at |-> <<pos_x, pos_y>>,
                              size |-> <<sheet_width, sheet_height>>,
                              uuid |-> Expr_of(W("uuid"), <<uuid>>),
                              pins |-> pins.pins]]

\* ---- the schematics appended and the steps of append

\* what uuid4() returns for the k-th sheet: a value not handed out before
uuid4(k) == [k |-> "str", s |-> <<"u", Digits[k + 1]>>]

\* (path "name" (page "number")) of sheet_instances, as its two strings
Instance(path, page) == [path |-> path, page |-> page]

\* f'"{new_page}"' and int(max_page[1:-1])
page_str(n) == <<"\"">> \o int_str([k |-> "int", i |-> n]) \o <<"\"">>

page_int(page) == IntOf(SubSeq(page, 2, Len(page) - 1)).i

\* the sheet_instances of the targets tried: Schematic.empty()'s, and those
\* of a schematic read from a file whose pages are not in ascending order
StartInstances ==
    { <<Instance(<<"\"", "/", "\"">>, page_str(1))>>,
      <<Instance(<<"\"", "/", "\"">>, page_str(2)),
        Instance(<<"\"", "/", "s", "\"">>, page_str(1))>> }

RECURSIVE Repeat(_, _)
Repeat(c, n) == IF n = 0 THEN <<>> ELSE <<c>> \o Repeat(c, n - 1)

LongName == Repeat("A", 20)

\* The label names of the schematics tried: none, one, two with a long name,
\* fifteen short ones
LabelSets ==
    { <<>>,
      <<W("a")>>,
      <<LongName, W("b")>>,
      [i \in 1..15 |-> <<"L", Digits[(i \div 10) + 1], Digits[(i % 10) + 1]>>] }

SheetsIdle ==
    /\ a_todo = <<>>
    /\ a_pc = "idle"
    /\ a_last_x = 0
    /\ a_last_y = 0
    /\ a_max_height = 0
    /\ a_sheets = <<>>
    /\ a_pages = <<>>
    /\ a_result = JRes("none")

\* target = Schematic.empty(); target.append(schematics), lines 102-104
SheetsInit ==
    /\ a_todo \in UNION { [1..n -> LabelSets] : n \in 0..MaxSheets }
    /\ a_pc = "loop"
    /\ a_last_x = 20000
    /\ a_last_y = 20000
    /\ a_max_height = 0
    /\ a_sheets = <<>>
    /\ a_pages \in StartInstances
    /\ a_result = JRes("none")

\* One pass of the loop of lines 106-129
append_one ==
    /\ a_pc = "loop"
    /\ a_todo # <<>>
    /\ \E r \in {to_sheet(LabelSch(Head(a_todo)), a_last_x, a_last_y,
                          uuid4(Len(a_sheets) + 1))} :
       IF r.st # "ok"
       THEN /\ a_result' = JRes(r.st)
            /\ a_pc' = "done"
            /\ UNCHANGED <<a_todo, a_last_x, a_last_y, a_max_height, a_sheets,
                           a_pages>>
       ELSE \E x \in {a_last_x + width(r.box) + 20000} :
            \E h \in {IF height(r.box) > a_max_height THEN height(r.box)
                      ELSE a_max_height} :
                /\ a_max_height' = h
                /\ IF x > 270000
                   THEN a_last_x' = 20000 /\ a_last_y' = a_last_y + h + 20000
                   ELSE a_last_x' = x /\ UNCHANGED a_last_y
                /\ \E max_page \in {a_pages[Len(a_pages)].page} :
                   \E new_page \in {page_int(max_page) + 1} :
                      /\ a_sheets' = Append(a_sheets, r.sheet)
                      /\ a_pages' =
                            Append(a_pages,
                                   Instance(<<"\"", "/">>
                                            \o __str__(r.sheet.uuid)
                                            \o <<"\"">>,
                                            page_str(new_page)))
                /\ a_todo' = Tail(a_todo)
                /\ UNCHANGED <<a_pc, a_result>>
    /\ SheetsFrame

\* append returns
append_return ==
    /\ a_pc = "loop"
    /\ a_todo = <<>>
    /\ a_pc' = "done"
    /\ a_result' = JRes("ok")
    /\ UNCHANGED <<a_todo, a_last_x, a_last_y, a_max_height, a_sheets, a_pages>>
    /\ SheetsFrame

SheetsNext == append_one \/ append_return

-----------------------------------------------------------------------------
(* Net.rename (edea/parser.py).  A dict is a function from its keys.         *)

MaxRenames == 2

None == [k |-> "None"]

\* key in d
In(key, d) == key \in DOMAIN d

\* self.data[0] = names[net_name], whatever the shape of the net
rename_at_front(net, numbers, names) ==
    LET net_name == IF net.name = W("net_name") THEN net.data[1]
                    ELSE IF net.name = W("net") /\ Len(net.data) = 1 THEN None
                    ELSE net.data[2]
        net_number == IF net.name = W("net_name") THEN None
                      ELSE net.data[1]
        d1 == IF In(net_name, names)
              THEN [net.data EXCEPT ![1] = names[net_name]] ELSE net.data
        d2 == IF In(net_number, numbers)
              THEN [d1 EXCEPT ![1] = numbers[net_number]] ELSE d1
    IN  [net EXCEPT !.data = d2]

\* Net.rename(numbers, names)
rename(net, numbers, names) ==
    LET shape == IF net.name = W("net_name") THEN "name"
                 ELSE IF net.name = W("net") /\ Len(net.data) = 1
                      THEN "number"
                 ELSE "both"
        name_offset == IF shape = "both" THEN 1 ELSE 0
        net_name == IF shape = "name" THEN net.data[1]
                    ELSE IF shape = "number" THEN None
                    ELSE net.data[2]
        net_number == IF shape = "name" THEN None ELSE net.data[1]
        d1 == IF In(net_name, names)
              THEN [net.data EXCEPT ![name_offset + 1] = names[net_name]]
              ELSE net.data
        d2 == IF In(net_number, numbers)
              THEN [d1 EXCEPT ![1] = numbers[net_number]]
              ELSE d1
    IN  [net EXCEPT !.data = d2]

\* Net(typ, *args)
Net(typ, args) == [Expr("Net", typ) EXCEPT !.data = args]

NetNumbers == {[k |-> "int", i |-> i] : i \in 1..3}

NetNames == {Quoted(W(c)) : c \in {"a", "b", "c"}}

\* The three shapes: (net_name "n"), (net k), (net k "n")
Nets ==
    {Net(W("net_name"), <<n>>) : n \in NetNames}
    \cup {Net(W("net"), <<k>>) : k \in NetNumbers}
    \cup {Net(W("net"), <<k, n>>) : k \in NetNumbers, n \in NetNames}

\* The dicts with keys among Keys and values among Vals
Dicts(Keys, Vals) == UNION {[D -> Vals] : D \in SUBSET Keys}

NumberMaps == Dicts({[k |-> "int", i |-> i] : i \in 1..2}, NetNumbers)

NameMaps == Dicts({Quoted(W(c)) : c \in {"a", "b"}}, NetNames)

NetIdle ==
    /\ n_net = None
    /\ n_before = None
    /\ n_numbers = <<>>
    /\ n_names = <<>>
    /\ n_count = 0

NetInit ==
    /\ n_net \in Nets
    /\ n_before = None
    /\ n_numbers = <<>>
    /\ n_names = <<>>
    /\ n_count = 0

DoRename ==
    /\ n_count < MaxRenames
    /\ \E numbers \in NumberMaps, names \in NameMaps :
          /\ n_net' = rename(n_net, numbers, names)
          /\ n_numbers' = numbers
          /\ n_names' = names
    /\ n_before' = n_net
    /\ n_count' = n_count + 1
    /\ NetFrame

NetNext == DoRename

-----------------------------------------------------------------------------
(* Drawable.draw of a rectangle (edea/parser.py).  Arithmetic on numbers is *)
(* exact in hundred-thousandths; an int stays an int, as in Python.         *)

svg_precision == 4

IsNumber(a) == a.k \in {"int", "float"}

\* The value of a number, in hundred-thousandths
Units(a) ==
    IF a.k = "int" THEN a.i * 100000
    ELSE (IF a.neg THEN 0 - 1 ELSE 1) * a.m * Pow10(5 - a.e)

Abs(u) == IF u < 0 THEN 0 - u ELSE u

\* The int, or the float, of u hundred-thousandths
Number(is_int, u, neg) ==
    IF is_int THEN [k |-> "int", i |-> u \div 100000]
    ELSE LET n == Normalize(Abs(u), 5) IN
         [k |-> "float", neg |-> neg, m |-> n[1], e |-> n[2]]

\* a + b, a - b
py_add(a, b) ==
    Number(a.k = "int" /\ b.k = "int", Units(a) + Units(b),
           Units(a) + Units(b) < 0)

py_sub(a, b) ==
    Number(a.k = "int" /\ b.k = "int", Units(a) - Units(b),
           Units(a) - Units(b) < 0)

\* min(a, b) and max([a, b]): the first of two equal values is returned
py_min(a, b) == IF Units(b) < Units(a) THEN b ELSE a

py_max(a, b) == IF Units(b) > Units(a) THEN b ELSE a

\* round(a, ndigits): an int is returned as it is, a float goes to the
\* nearest multiple of 10^-ndigits (half to even) and keeps its sign
round(a, ndigits) ==
    IF a.k = "int" THEN a
    ELSE LET step == Pow10(5 - ndigits)
             q == Abs(Units(a)) \div step
             r == Abs(Units(a)) % step
             up == 2 * r > step \/ (2 * r = step /\ q % 2 = 1)
         IN  Number(FALSE, (IF up THEN q + 1 ELSE q) * step, a.neg)

\* Elem.append(key, value)
Elem_append(data, key, value) ==
    IF Has(data, key)
    THEN [i \in 1..Len(data) |->
            IF data[i].key = key
            THEN [key |-> key, item |-> Append(data[i].item, value)]
            ELSE data[i]]
    ELSE Append(data, [key |-> key, item |-> <<value>>])

\* Elem.to_string() of an element without inner text
to_string(elem) ==
    LET attrs == [i \in 1..Len(elem.data) |->
                     <<elem.data[i].key, "=", "\"">>
                     \o JoinWith(<<" ">>, elem.data[i].item) \o <<"\"">>]
    IN  <<"<", elem.typ, " ">> \o JoinWith(<<" ">>, attrs) \o <<" ", "/", ">">>

\* self.<name> where a node is needed
sub_node(n, name) ==
    Only({ IF got.r = "IndexError" THEN [st |-> "IndexError"]
           ELSE IF got.r = "single" /\ IsNode(got.item)
           THEN [st |-> "ok", v |-> got.item]
           ELSE [st |-> "AttributeError"] :
           got \in {__getattr__(n, name)} })

\* self.<name>[i] where a number is needed
sub_number(n, name, i) ==
    Only({ IF got.r \in {"AttributeError", "IndexError"} THEN [st |-> got.r]
           ELSE IF got.r = "map" THEN [st |-> "KeyError"]
           ELSE IF got.r = "list" \/ ~IsNode(got.item) THEN [st |-> "TypeError"]
           ELSE IF Len(got.item.data) <= i THEN [st |-> "IndexError"]
           ELSE IF ~IsNumber(got.item.data[i + 1]) THEN [st |-> "TypeError"]
           ELSE [st |-> "ok", v |-> got.item.data[i + 1]] :
           got \in {__getattr__(n, name)} })

\* parse_color(self.stroke.color): the "r,g,b" text and the opacity
parse_color(self) ==
    Only({ IF stroke.st # "ok" THEN stroke
           ELSE Only({ IF color.st # "ok" THEN color
                       ELSE IF Len(color.v.data) < 4 THEN [st |-> "IndexError"]
                       ELSE [st |-> "ok",
                             rgb |-> __str__(color.v.data[1]) \o <<",">>
                                     \o __str__(color.v.data[2]) \o <<",">>
                                     \o __str__(color.v.data[3]),
                             opacity |-> color.v.data[4]] :
                       color \in {sub_node(stroke.v, W("color"))} }) :
           stroke \in {sub_node(self, W("stroke"))} })

\* The stroke of parse_visual (lines 507-532)
visual_stroke(self, data) ==
    IF ~hasattr(self, W("stroke")) THEN [st |-> "ok", data |-> data]
    ELSE Only({
         IF c.st # "ok" THEN [st |-> c.st]
         ELSE Only({
              IF w.st # "ok" THEN [st |-> w.st]
              ELSE IF t.st # "ok" THEN [st |-> t.st]
              ELSE LET opacity == IF IsNumber(c.opacity) /\ Units(c.opacity) = 0
                                  THEN [k |-> "int", i |-> 1] ELSE c.opacity
                       stroke_width ==
                           IF IsNumber(w.v) /\ Units(w.v) = 0
                           THEN [k |-> "float", neg |-> FALSE,
                                 m |-> 1524, e |-> 4]
                           ELSE w.v
                       d1 == Elem_append(data, "stroke",
                                 <<"rgb", "(">> \o c.rgb \o <<")">>)
                       d2 == Elem_append(d1, "stroke-opacity",
                                         __str__(opacity))
                       d3 == Elem_append(d2, "stroke-width",
                                         __str__(stroke_width))
                   IN  [st |-> "ok",
                        data |->
                           IF t.v = [k |-> "str", s |-> W("dot")]
                           THEN Elem_append(d3, "stroke-dasharray", <<"1">>)
                           ELSE IF t.v = [k |-> "str", s |-> W("dash")]
                           THEN Elem_append(d3, "stroke-dasharray",
                                            <<"3", " ", "1">>)
                           ELSE IF t.v = [k |-> "str", s |-> W("dash_dot")]
                           THEN Elem_append(d3, "stroke-dasharray",
                                    <<"3", " ", "1", " ", "1", " ", "1">>)
                           ELSE IF t.v = [k |-> "str",
                                          s |-> W("dash_dot_dot")]
                           THEN Elem_append(d3, "stroke-dasharray",
                                    <<"3", " ", "1", " ", "1", " ", "1",
                                      " ", "1", " ", "1">>)
                           ELSE d3] :
              w \in {first_of(stroke.v, W("width"))},
              t \in {first_of(stroke.v, W("type"))} }) :
         c \in {parse_color(self)},
         stroke \in {sub_node(self, W("stroke"))} })

\* The fill of parse_visual (lines 534-544)
visual_fill(self, data) ==
    IF ~hasattr(self, W("fill")) THEN [st |-> "ok", data |-> data]
    ELSE Only({
         IF fill.st # "ok" THEN [st |-> fill.st]
         ELSE Only({
              IF t.st # "ok" THEN [st |-> t.st]
              ELSE IF t.v \in {[k |-> "str", s |-> W("none")],
                               [k |-> "str", s |-> W("background")]}
              THEN [st |-> "ok",
                    data |-> Elem_append(data, "fill", <<"none">>)]
              ELSE IF t.v = [k |-> "str", s |-> W("outline")]
              THEN Only({
                   IF c.st # "ok" THEN [st |-> c.st]
                   ELSE [st |-> "ok",
                         data |-> Elem_append(
                                      Elem_append(data, "fill",
                                          <<"rgb", "(">> \o c.rgb \o <<")">>),
                                      "fill-opacity", __str__(c.opacity))] :
                   c \in {parse_color(self)} })
              ELSE [st |-> "ok", data |-> data] :
              t \in {first_of(fill.v, W("type"))} }) :
         fill \in {sub_node(self, W("fill"))} })

\* Drawable.parse_visual(node, at) of a node that carries no (at ...) of
\* its own, as a rectangle does: the rotation of lines 546-566 is skipped
parse_visual(self, data, at) ==
    Only({ IF s.st # "ok" THEN s ELSE visual_fill(self, s.data) :
           s \in {visual_stroke(self, data)} })

\* The rectangle branch of draw (lines 425-440)
rectangle_elem(self, position, data) ==
    Only({
        IF sx.st # "ok" THEN [st |-> sx.st]
        ELSE IF ex.st # "ok" THEN [st |-> ex.st]
        ELSE IF sy.st # "ok" THEN [st |-> sy.st]
        ELSE IF ey.st # "ok" THEN [st |-> ey.st]
        ELSE LET w == py_sub(py_max(sx.v, ex.v), py_min(sx.v, ex.v))
                 h == py_sub(py_max(sy.v, ey.v), py_min(sy.v, ey.v))
                 svgx == py_min(py_add(position[1], sx.v),
                                py_add(position[1], ex.v))
                 svgy == py_min(py_sub(position[2], sy.v),
                                py_sub(position[2], ey.v))
                 d1 == Elem_append(data, "x",
                                   __str__(round(svgx, svg_precision)))
                 d2 == Elem_append(d1, "y",
                                   __str__(round(svgy, svg_precision)))
                 d3 == Elem_append(d2, "width",
                                   __str__(round(w, svg_precision)))
                 d4 == Elem_append(d3, "height",
                                   __str__(round(h, svg_precision)))
             IN  [st |-> "ok", node |-> [typ |-> "rect", data |-> d4]] :
        sx \in {sub_number(self, W("start"), 0)},
        ex \in {sub_number(self, W("end"), 0)},
        sy \in {sub_number(self, W("start"), 1)},
        ey \in {sub_number(self, W("end"), 1)} })

\* Drawable.draw(position) of a rectangle: the Elem built and the fragment
\* returned, or the error raised
draw(self, position) ==
    Only({ IF v.st # "ok" THEN [st |-> v.st]
           ELSE Only({ IF r.st # "ok" THEN r
                       ELSE [st |-> "ok", node |-> r.node,
                             text |-> to_string(r.node)] :
                       r \in {rectangle_elem(self, position, v.data)} }) :
           v \in {parse_visual(self, <<>>, position)} })

\* ---- the rectangles drawn

I(i) == [k |-> "int", i |-> i]

F(neg, m, e) == [k |-> "float", neg |-> neg, m |-> m, e |-> e]

\* 5, 5.0, 5.08, -5.08, -1.905, 0.00004
Coords ==
    {I(5), F(FALSE, 5, 0), F(FALSE, 508, 2), F(TRUE, 508, 2),
     F(TRUE, 1905, 3), F(FALSE, 4, 5)}

\* (stroke (width w) (type t) (color r g b a))
Stroke(w, t, r, g, b, a) ==
    Node(W("stroke"),
         <<Node(W("width"), <<w>>), Node(W("type"), <<atom(W(t))>>),
           Node(W("color"), <<I(r), I(g), I(b), a>>)>>)

Fill(t) == Node(W("fill"), <<Node(W("type"), <<atom(W(t))>>)>>)

\* What follows the corners: nothing, the stroke and fill of the rendering
\* test, a dashed default stroke with an outline fill, an outline fill alone
Visuals ==
    { <<>>,
      <<Stroke(F(FALSE, 254, 3), "default", 120, 85, 0, F(FALSE, 5, 1)),
        Fill("background")>>,
      <<Stroke(I(0), "dash", 0, 0, 0, I(0)), Fill("outline")>>,
      <<Fill("outline")>> }

Rectangle(sx, sy, ex, ey, visual) ==
    Node(W("rectangle"),
         <<Node(W("start"), <<sx, sy>>), Node(W("end"), <<ex, ey>>)>>
         \o visual)

Rectangles ==
    {Rectangle(sx, sy, ex, ey, v) :
        sx \in Coords, sy \in Coords, ex \in Coords, ey \in Coords,
        v \in Visuals}
    \cup {Node(W("rectangle"), <<Node(W("start"), <<I(5), I(5)>>)>>)}

Positions == {<<I(0), I(0)>>, <<I(20), I(10)>>, <<F(FALSE, 2, 1), I(10)>>}

NoElem == [typ |-> "", data |-> <<>>]

DrawIdle ==
    /\ d_self = None
    /\ d_position = <<>>
    /\ d_node = NoElem
    /\ d_out = JRes("none")
    /\ d_pc = "idle"

DrawInit ==
    /\ d_self \in Rectangles
    /\ d_position \in Positions
    /\ d_node = NoElem
    /\ d_out = JRes("none")
    /\ d_pc = "ready"

\* d_out = d_self.draw(d_position)
DoDraw ==
    /\ d_pc = "ready"
    /\ \E r \in {draw(d_self, d_position)} :
          IF r.st = "ok"
          THEN d_node' = r.node /\ d_out' = [st |-> "ok", text |-> r.text]
          ELSE d_node' = d_node /\ d_out' = JRes(r.st)
    /\ d_pc' = "drawn"
    /\ UNCHANGED <<d_self, d_position>>
    /\ DrawFrame

DrawNext == DoDraw

-----------------------------------------------------------------------------
(* Project.metadata, _get_parts and _key_unique_part (edea/edea.py)          *)

PyFalse == [k |-> "bool", b |-> FALSE]

\* a is b, for b one of the singletons
is_(a, b) == a = b

\* str.startswith, str.endswith
startswith(s, prefix) ==
    Len(s) >= Len(prefix) /\ SubSeq(s, 1, Len(prefix)) = prefix

endswith(s, suffix) ==
    Len(s) >= Len(suffix)
    /\ SubSeq(s, Len(s) - Len(suffix) + 1, Len(s)) = suffix

\* hasattr(d, name) of a dict d: the names a dict has
dict_attributes ==
    {W("clear"), W("copy"), W("fromkeys"), W("get"), W("items"), W("keys"),
     W("pop"), W("popitem"), W("setdefault"), W("update"), W("values")}

dict_hasattr(name) == name \in dict_attributes

\* `for x in expr.<name>`: the things the loop visits
iterate(n, name) ==
    Only({ IF got.r \in {"AttributeError", "IndexError"} THEN [st |-> got.r]
           ELSE IF got.r = "list" THEN [st |-> "ok", items |-> got.items]
           ELSE IF got.r = "map"
           THEN [st |-> "ok",
                 items |-> [i \in 1..Len(got.entries) |->
                               [k |-> "str", s |-> got.entries[i].key]]]
           ELSE IF IsNode(got.item) THEN [st |-> "ok", items |-> got.item.data]
           ELSE [st |-> "ok",
                 items |-> [i \in 1..Len(got.item.s) |->
                               [k |-> "str", s |-> <<got.item.s[i]>>]]] :
           got \in {__getattr__(n, name)} })

\* x.property[key][1]
property_value(x, key) ==
    IF ~IsNode(x) THEN [st |-> "AttributeError"]
    ELSE Only({ IF got.r \in {"AttributeError", "IndexError"}
                THEN [st |-> got.r]
                ELSE IF got.r # "map" THEN [st |-> "TypeError"]
                ELSE IF ~Has(got.entries, key) THEN [st |-> "KeyError"]
                ELSE IF Len(Get(got.entries, key).data) < 2
                THEN [st |-> "IndexError"]
                ELSE [st |-> "ok", v |-> Get(got.entries, key).data[2]] :
                got \in {__getattr__(x, W("property"))} })

\* The lambda of _get_parts (line 414): whether sym is left out
left_out(sym) ==
    Only({ IF reference.st # "ok" THEN reference
           ELSE IF ~IsStr(reference.v) THEN [st |-> "AttributeError"]
           ELSE IF startswith(reference.v.s, <<"\"", "#">>)
           THEN [st |-> "ok", v |-> TRUE]
           ELSE Only({ IF in_bom.r \in {"AttributeError", "IndexError"}
                       THEN [st |-> in_bom.r]
                       ELSE [st |-> "ok", v |-> is_(in_bom, PyFalse)] :
                       in_bom \in {__getattr__(sym, W("in_bom"))} }) :
           reference \in {property_value(sym, W("Reference"))} })

\* list(filterfalse(lambda, symbols))
RECURSIVE filterfalse(_)
filterfalse(symbols) ==
    IF symbols = <<>> THEN [st |-> "ok", parts |-> <<>>]
    ELSE Only({
         IF drop.st # "ok" THEN [st |-> drop.st]
         ELSE Only({ IF rest.st # "ok" THEN rest
                     ELSE [st |-> "ok",
                           parts |-> (IF drop.v THEN <<>>
                                      ELSE <<Head(symbols)>>) \o rest.parts] :
                     rest \in {filterfalse(Tail(symbols))} }) :
         drop \in {left_out(Head(symbols))} })

\* Project._get_parts(sch, path): the parts and the sheets counted
RECURSIVE _get_parts(_, _, _)
RECURSIVE sub_parts(_, _, _)
_get_parts(sch, schematics, fn_to_uuid) ==
    Only({
    IF symbols.st # "ok" THEN [st |-> symbols.st]
    ELSE Only({
         IF own.st # "ok" THEN [st |-> own.st]
         ELSE IF ~hasattr(sch, W("sheet"))
         THEN [st |-> "ok", parts |-> own.parts, sheets |-> 1]
         ELSE Only({
              IF sheets.st # "ok" THEN [st |-> sheets.st]
              ELSE Only({ IF below.st # "ok" THEN below
                          ELSE [st |-> "ok",
                                parts |-> own.parts \o below.parts,
                                sheets |-> 1 + below.sheets] :
                          below \in {sub_parts(sheets.items, schematics,
                                               fn_to_uuid)} }) :
              sheets \in {iterate(sch, W("sheet"))} }) :
         own \in {filterfalse(symbols.items)} }) :
    symbols \in {iterate(sch, W("symbol"))} })

\* The loop of lines 418-422
sub_parts(sheets, schematics, fn_to_uuid) ==
    IF sheets = <<>> THEN [st |-> "ok", parts |-> <<>>, sheets |-> 0]
    ELSE Only({
         IF file.st # "ok" THEN [st |-> file.st]
         ELSE IF ~IsStr(file.v) THEN [st |-> "AttributeError"]
         ELSE IF ~Has(fn_to_uuid, strip(file.v.s)) THEN [st |-> "KeyError"]
         ELSE IF ~Has(schematics, Get(fn_to_uuid, strip(file.v.s)))
         THEN [st |-> "KeyError"]
         ELSE Only({
              IF sub.st # "ok" THEN sub
              ELSE Only({ IF rest.st # "ok" THEN rest
                          ELSE [st |-> "ok",
                                parts |-> sub.parts \o rest.parts,
                                sheets |-> sub.sheets + rest.sheets] :
                          rest \in {sub_parts(Tail(sheets), schematics,
                                              fn_to_uuid)} }) :
              sub \in {_get_parts(Get(schematics,
                                      Get(fn_to_uuid, strip(file.v.s))),
                                  schematics, fn_to_uuid)} }) :
         file \in {property_value(Head(sheets), W("Sheet file"))} })

\* Project._key_unique_part(sym)
_key_unique_part(sym) ==
    Only({
    IF props.r \in {"AttributeError", "IndexError"} THEN [st |-> props.r]
    ELSE IF props.r # "map" THEN [st |-> "TypeError"]
    ELSE IF dict_hasattr(W("MPN"))
    THEN property_value(sym, W("MPN"))
    ELSE IF dict_hasattr(W("LCSC"))
    THEN property_value(sym, W("LCSC"))
    ELSE Only({ IF value.st # "ok" THEN value
                ELSE IF footprint.st # "ok" THEN footprint
                ELSE IF ~IsStr(value.v) \/ ~IsStr(footprint.v)
                THEN [st |-> "TypeError"]
                ELSE [st |-> "ok",
                      v |-> [k |-> "str",
                             s |-> value.v.s \o footprint.v.s]] :
                value \in {property_value(sym, W("Value"))},
                footprint \in {property_value(sym, W("Footprint"))} }) :
    props \in {__getattr__(sym, W("property"))} })

\* The key of every part, as groupby asks for it
RECURSIVE keys_of(_)
keys_of(parts) ==
    IF parts = <<>> THEN [st |-> "ok", keys |-> <<>>]
    ELSE Only({
         IF key.st # "ok" THEN [st |-> key.st]
         ELSE Only({ IF rest.st # "ok" THEN rest
                     ELSE [st |-> "ok", keys |-> <<key.v>> \o rest.keys] :
                     rest \in {keys_of(Tail(parts))} }) :
         key \in {_key_unique_part(Head(parts))} })

\* The keys itertools.groupby yields: one for every run of equal keys
groupby(keys) ==
    LET starts == {i \in 1..Len(keys) : i = 1 \/ keys[i] # keys[i - 1]}
        nth(n) == CHOOSE i \in starts :
                      Cardinality({k \in starts : k < i}) = n - 1
    IN  [n \in 1..Cardinality(starts) |-> keys[nth(n)]]

\* The properties of one part (lines 390-397)
RECURSIVE expand(_, _, _)
expand(sym, names, properties) ==
    IF names = <<>> THEN [st |-> "ok", d |-> properties]
    ELSE Only({ IF value.st # "ok" THEN [st |-> value.st]
                ELSE IF ~IsStr(value.v) THEN [st |-> "TypeError"]
                ELSE expand(sym, Tail(names),
                            DictSet(properties, Head(names),
                                    Inner(value.v.s))) :
                value \in {property_value(sym, Head(names))} })

\* The loop of lines 388-397
RECURSIVE bom_of(_, _, _)
bom_of(parts, symbol_instances, bom_parts) ==
    IF parts = <<>> THEN [st |-> "ok", d |-> bom_parts]
    ELSE Only({
         Only({
         IF properties.st # "ok" THEN [st |-> properties.st]
         ELSE IF uuid.st # "ok" THEN [st |-> uuid.st]
         ELSE IF ~IsStr(uuid.v) \/ ~Has(symbol_instances, uuid.v.s)
         THEN [st |-> "KeyError"]
         ELSE bom_of(Tail(parts), symbol_instances,
                     DictSet(bom_parts, uuid.v.s,
                             DictSet(properties.d, W("Reference"),
                                     Get(symbol_instances, uuid.v.s)))) :
         properties \in
            {expand(Head(parts),
                    [i \in 1..Len(props.entries) |-> props.entries[i].key],
                    <<>>)},
         uuid \in {first_of(Head(parts), W("uuid"))} }) :
         props \in {__getattr__(Head(parts), W("property"))} })

\* The copper layers of lines 401-404
copper_layers_of(pcb) ==
    Only({
    IF layers.st # "ok" THEN [st |-> layers.st]
    ELSE IF \E i \in 1..Len(layers.items) :
                \/ ~IsNode(layers.items[i])
                \/ layers.items[i].data = <<>>
                \/ ~IsStr(layers.items[i].data[1])
    THEN [st |-> "AttributeError"]
    ELSE [st |-> "ok",
          n |-> Cardinality({i \in 1..Len(layers.items) :
                    endswith(layers.items[i].data[1].s, <<".Cu", "\"">>)})] :
    layers \in {iterate(pcb, W("layers"))} })

\* PCB.bounding_box() of a board without footprints, polygons and fp_lines
bounding_box(pcb) == reset

\* Project.metadata(): parts and keys as the function holds them, and what
\* it returns
metadata(top, schematics, fn_to_uuid, symbol_instances, pcb) ==
    IF ~Has(schematics, top)
    THEN [st |-> "KeyError", parts |-> <<>>, keys |-> <<>>]
    ELSE Only({
         IF got.st # "ok"
         THEN [st |-> got.st, parts |-> <<>>, keys |-> <<>>]
         ELSE Only({
              IF keys.st # "ok"
              THEN [st |-> keys.st, parts |-> got.parts, keys |-> <<>>]
              ELSE Only({
                   IF bom_parts.st # "ok"
                   THEN [st |-> bom_parts.st, parts |-> got.parts,
                         keys |-> keys.keys]
                   ELSE IF copper.st # "ok"
                   THEN [st |-> copper.st, parts |-> got.parts,
                         keys |-> keys.keys]
                   ELSE [st |-> "ok", parts |-> got.parts,
                         keys |-> keys.keys,
                         bom |-> [count_part |-> Len(got.parts),
                                  count_unique |-> Len(groupby(keys.keys)),
                                  parts |-> bom_parts.d,
                                  sheets |-> got.sheets,
                                  area |-> area(outer),
                                  width |-> width(outer),
                                  height |-> height(outer),
                                  copper_layers |-> copper.n]] :
                   bom_parts \in {bom_of(got.parts, symbol_instances, <<>>)},
                   copper \in {copper_layers_of(pcb)},
                   outer \in {bounding_box(pcb)} }) :
              keys \in {keys_of(got.parts)} }) :
         got \in {_get_parts(Get(schematics, top), schematics, fn_to_uuid)} })

\* ---- the projects metadata is asked about

MaxSymbols == 3

\* (property "name" "value")
Property(name, value) ==
    Node(W("property"), <<Quoted(W(name)), Quoted(value)>>)

\* What a symbol is made from: its reference letter, in_bom, Value, MPN, LCSC
SymbolKinds ==
    { [ref |-> "R", in_bom |-> "yes", value |-> "A", mpn |-> "", lcsc |-> ""],
      [ref |-> "R", in_bom |-> "yes", value |-> "B", mpn |-> "", lcsc |-> ""],
      [ref |-> "R", in_bom |-> "no", value |-> "A", mpn |-> "", lcsc |-> ""],
      [ref |-> "#", in_bom |-> "yes", value |-> "A", mpn |-> "", lcsc |-> ""],
      [ref |-> "R", in_bom |-> "yes", value |-> "A", mpn |-> "M1",
       lcsc |-> ""],
      [ref |-> "R", in_bom |-> "yes", value |-> "B", mpn |-> "M1",
       lcsc |-> "C1"],
      [ref |-> "R", in_bom |-> "yes", value |-> "B", mpn |-> "",
       lcsc |-> "C1"] }

Reference(kind, n) == <<kind.ref, Digits[n + 1]>>

\* (symbol (lib_id "Device:R") (in_bom b) (uuid u) (property ...) ...)
Symbol(uuid, kind, n) ==
    Node(W("symbol"),
         <<Node(W("lib_id"), <<Quoted(W("Device:R"))>>),
           Node(W("in_bom"), <<atom(W(kind.in_bom))>>),
           Node(W("uuid"), <<atom(W(uuid))>>),
           Property("Reference", Reference(kind, n)),
           Property("Value", W(kind.value)),
           Property("Footprint", W("F"))>>
         \o (IF kind.mpn = "" THEN <<>>
             ELSE <<Property("MPN", W(kind.mpn))>>)
         \o (IF kind.lcsc = "" THEN <<>>
             ELSE <<Property("LCSC", W(kind.lcsc))>>))

SymbolUuids == <<"u1", "u2", "u3", "u4">>

SubKinds ==
    <<[ref |-> "R", in_bom |-> "yes", value |-> "B", mpn |-> "", lcsc |-> ""],
      [ref |-> "R", in_bom |-> "no", value |-> "C", mpn |-> "", lcsc |-> ""]>>

\* The sub-sheet a.kicad_sch: two symbols, one of them out of the BOM
SubSchematic ==
    Sch(V6, "a", <<Symbol("v1", SubKinds[1], 8), Symbol("v2", SubKinds[2], 9)>>)

\* The sheets of the root: none, one, or two instances of a.kicad_sch
RootSheets ==
    { <<>>,
      <<Sheet("x", "a.kicad_sch")>>,
      <<Sheet("x", "a.kicad_sch"), Sheet("y", "a.kicad_sch")>> }

\* The root schematic with the symbols of kinds and its symbol_instances
Root(kinds, sheets) ==
    Sch(V6, "t",
        [i \in 1..Len(kinds) |-> Symbol(SymbolUuids[i], kinds[i], i)]
        \o sheets
        \o <<Node(W("symbol_instances"),
                  [i \in 1..Len(kinds) |->
                      Path(<<"/", SymbolUuids[i]>>, Reference(kinds[i], i))]
                  \o <<Path(<<"/", "x", "/", "v1">>, <<"R", "8">>),
                       Path(<<"/", "x", "/", "v2">>, <<"R", "9">>)>>)>>)

\* (kicad_pcb (version v) (layers (0 "F.Cu" signal) (31 "B.Cu" signal)
\*            (36 "B.SilkS" user)))
Board ==
    Node(W("kicad_pcb"),
         <<Node(W("version"), <<atom(V6)>>),
           Node(W("layers"),
                <<Node(W("0"), <<Quoted(<<"F", ".Cu">>), atom(W("signal"))>>),
                  Node(W("31"), <<Quoted(<<"B", ".Cu">>), atom(W("signal"))>>),
                  Node(W("36"), <<Quoted(<<"B", ".SilkS">>),
                                  atom(W("user"))>>)>>)>>)

NoBom == [st |-> "none"]

BomIdle ==
    /\ m_top = None
    /\ m_schematics = <<>>
    /\ m_fn_to_uuid = <<>>
    /\ m_symbol_instances = <<>>
    /\ m_pcb = None
    /\ m_parts = <<>>
    /\ m_keys = <<>>
    /\ m_result = NoBom
    /\ m_pc = "idle"

\* The project as Project.parse() leaves it
BomInit ==
    \E kinds \in UNION {[1..n -> SymbolKinds] : n \in 1..MaxSymbols},
       sheets \in RootSheets :
        LET root == Root(kinds, sheets) IN
        /\ m_top = first_of(root, W("uuid")).v
        /\ m_schematics =
               <<[key |-> first_of(root, W("uuid")).v, item |-> root]>>
               \o (IF sheets = <<>> THEN <<>>
                   ELSE <<[key |-> first_of(SubSchematic, W("uuid")).v,
                           item |-> SubSchematic]>>)
        /\ m_fn_to_uuid =
               <<[key |-> basename(sch_file_name),
                  item |-> first_of(root, W("uuid")).v]>>
               \o (IF sheets = <<>> THEN <<>>
                   ELSE <<[key |-> W("a.kicad_sch"),
                           item |-> first_of(SubSchematic, W("uuid")).v]>>)
        /\ m_symbol_instances =
               record_instances(<<>>, instance_paths(root).paths).d
        /\ m_pcb = Board
        /\ m_parts = <<>>
        /\ m_keys = <<>>
        /\ m_result = NoBom
        /\ m_pc = "parsed"

\* m_result = project.metadata()
DoMetadata ==
    /\ m_pc = "parsed"
    /\ \E r \in {metadata(m_top, m_schematics, m_fn_to_uuid,
                          m_symbol_instances, m_pcb)} :
          /\ m_parts' = r.parts
          /\ m_keys' = r.keys
          /\ m_result' = IF r.st = "ok" THEN [st |-> "ok", bom |-> r.bom]
                         ELSE [st |-> r.st]
    /\ m_pc' = "done"
    /\ UNCHANGED <<m_top, m_schematics, m_fn_to_uuid, m_symbol_instances,
                   m_pcb>>
    /\ BomFrame

BomNext == DoMetadata

-----------------------------------------------------------------------------
(* Project component, continued: metadata() on the project parse() left     *)

\* self.schematics: the Schematic objects by uuid, each holding the tree
\* that was read from its file (lines 328-329)
loaded_schematics ==
    [i \in 1..Len(j_schematics) |->
        [key |-> j_schematics[i].key,
         item |-> IF j_schematics[i].item = sch_file_name
                  THEN Get(fs, sch_file_name)
                  ELSE Get(fs, join(dirname(sch_file_name),
                                    j_schematics[i].item))]]

\* project.metadata() after project.parse() has returned
project_metadata ==
    /\ j_pc = "done"
    /\ j_result.st = "ok"
    /\ j_meta = NoMeta
    /\ \E r \in {metadata(j_top, loaded_schematics, j_fn_to_uuid,
                          j_symbol_instances, Get(fs, pcb_file_name))} :
          j_meta' = IF r.st = "ok" THEN [st |-> "ok", bom |-> r.bom]
                    ELSE [st |-> r.st]
    /\ UNCHANGED <<fs, j_pc, j_opened, j_symbol_instances, j_schematics,
                   j_fn_to_uuid, j_sch, j_top, j_stack, j_result, j_made,
                   j_first>>
    /\ ProjFrame

ProjNext ==
    \/ open_schematic
    \/ check_version
    \/ symbol_instances_loop
    \/ parse_top
    \/ parse_sheet
    \/ sheet_return
    \/ open_pcb
    \/ new_project
    \/ project_metadata

-----------------------------------------------------------------------------
(* Merge component: PCB.bounding_box, PCB.move and PCB.append               *)
(* A node is an object; its id names the object, so two places holding a    *)
(* node of the same id hold the same object, and a method that changes the  *)
(* object changes it in every place that holds it.                          *)

\* The object from_tokens makes for (tag ...) under parent
Obj(id, tag, parent, data) ==
    parsed([k |-> "node", id |-> id, cls |-> Variant(tag, parent, <<>>),
            name |-> tag, data |-> data, known |-> {}, more |-> {}])

copy_parts ==
    << W("footprint"), W("zone"), W("via"), W("segment"), W("arc"),
       W("gr_text"), W("gr_line"), W("gr_poly"), W("gr_arc"),
       W("gr_circle"), W("gr_curve"), W("dimension") >>

\* Expr.apply(cls, ...): the objects of class cls below n, n included, in
\* the order apply visits them
RECURSIVE instances(_, _)
RECURSIVE instances_in(_, _)
instances(n, classes) ==
    (IF n.cls \in classes THEN <<n>> ELSE <<>>) \o instances_in(n.data, classes)

instances_in(data, classes) ==
    IF data = <<>> THEN <<>>
    ELSE (IF IsNode(Head(data)) THEN instances(Head(data), classes) ELSE <<>>)
         \o instances_in(Tail(data), classes)

\* Pad.corners() for a pad without an angle (cos 0 = 1, sin 0 = 0), in
\* hundred-thousandths
pad_corners(pad) ==
    Only({ Only({ IF pad.data[3] = [k |-> "str", s |-> W("oval")]
                  THEN Array(<< <<o[1] + half[1], o[2]>>,
                                <<o[1] - half[1], o[2]>>,
                                <<o[1], o[2] + half[2]>>,
                                <<o[1], o[2] - half[2]>> >>)
                  ELSE Array(<< <<o[1] + half[1], o[2] + half[2]>>,
                                <<o[1] + half[1], o[2] - half[2]>>,
                                <<o[1] - half[1], o[2] + half[2]>>,
                                <<o[1] - half[1], o[2] - half[2]>> >>) :
               o \in {<<Units(at.data[1]), Units(at.data[2])>>},
               half \in {<<Units(size.data[1]) \div 2,
                           Units(size.data[2]) \div 2>>} }) :
           at \in {__getattr__(pad, W("at")).item},
           size \in {__getattr__(pad, W("size")).item} })

RECURSIVE envelop_pads(_, _)
envelop_pads(b, pads) ==
    IF pads = <<>> THEN b
    ELSE envelop_pads(envelop(b, pad_corners(Head(pads))).box, Tail(pads))

\* FPLine.corners(): start and end, in hundred-thousandths
fp_line_corners(line) ==
    Only({ Array(<< <<Units(start.data[1]), Units(start.data[2])>>,
                    <<Units(end.data[1]), Units(end.data[2])>> >>) :
           start \in {__getattr__(line, W("start")).item},
           end \in {__getattr__(line, W("end")).item} })

\* Polygon.corners(): the four corners around the xy points of self.pts
polygon_corners(polygon) ==
    Only({ Only({ Array(<< <<SetMin(xs), SetMin(ys)>>, <<SetMin(xs), SetMax(ys)>>,
                           <<SetMax(xs), SetMax(ys)>>, <<SetMax(xs), SetMin(ys)>> >>) :
                  xs \in {{Units(pts.data[i].data[1]) : i \in 1..Len(pts.data)}},
                  ys \in {{Units(pts.data[i].data[2]) : i \in 1..Len(pts.data)}} }) :
           pts \in {__getattr__(polygon, W("pts")).item} })

\* lines 340-342 and 351-353: the box rotated by the footprint's angle, when
\* it has one, and moved by its anchor
\* box.rotate(angle) for a box in hundred-thousandths: rotate works in
\* thousandths
rotate_units(b, angle) ==
    IF ~b.valid THEN b
    ELSE Only({ [r EXCEPT !.min_x = @ * 100, !.min_y = @ * 100,
                          !.max_x = @ * 100, !.max_y = @ * 100] :
                r \in {rotate([b EXCEPT !.min_x = @ \div 100,
                                        !.min_y = @ \div 100,
                                        !.max_x = @ \div 100,
                                        !.max_y = @ \div 100], angle)} })

rotate_translate(self, b) ==
    Only({ translate(IF Len(at.data) > 2 THEN rotate_units(b, at.data[3].i)
                     ELSE b,
                     <<Units(at.data[1]), Units(at.data[2])>>) :
           at \in {__getattr__(self, W("at")).item} })

\* `[box.envelop(pad.corners()) for pad in self.pad]`: the box, or the error
\* of asking something that is no pad for its corners
envelop_each_pad(self, b) ==
    Only({ IF pad.r = "list"
           THEN [st |-> "ok", box |-> envelop_pads(b, pad.items)]
           ELSE IF pad.r = "IndexError" THEN [st |-> "IndexError"]
           ELSE IF pad.r = "single" /\ pad.item.data = <<>>
           THEN [st |-> "ok", box |-> b]
           ELSE [st |-> "AttributeError"] :
           pad \in {__getattr__(self, W("pad"))} })

\* lines 333-342: the pads
box_of_pads(self, b) ==
    Only({ IF pad.r = "AttributeError" THEN [st |-> "ok", box |-> b]
           ELSE IF pad.r = "IndexError" THEN [st |-> "IndexError"]
           ELSE IF pad.r = "list"
           THEN [st |-> "ok",
                 box |-> rotate_translate(self, envelop_pads(b, pad.items))]
           ELSE IF pad.r = "single" /\ IsNode(pad.item)
           THEN [st |-> "ok",
                 box |-> rotate_translate(self,
                             envelop(b, pad_corners(pad.item)).box)]
           ELSE [st |-> "AttributeError"] :
           pad \in {__getattr__(self, W("pad"))} })

\* lines 344-353: the fp_lines
box_of_lines(self, b) ==
    Only({ IF line.r = "AttributeError" THEN [st |-> "ok", box |-> b]
           ELSE IF line.r = "IndexError" THEN [st |-> "IndexError"]
           ELSE IF line.r = "list"
           THEN Only({ IF each.st # "ok" THEN each
                       ELSE [st |-> "ok",
                             box |-> rotate_translate(self, each.box)] :
                       each \in {envelop_each_pad(self, b)} })
           ELSE IF line.r = "single" /\ IsNode(line.item)
           THEN [st |-> "ok",
                 box |-> rotate_translate(self,
                             envelop(b, fp_line_corners(line.item)).box)]
           ELSE [st |-> "AttributeError"] :
           line \in {__getattr__(self, W("fp_line"))} })

\* Footprint.bounding_box()
footprint_bounding_box(self) ==
    Only({ IF padded.st # "ok" THEN padded
           ELSE box_of_lines(self, padded.box) :
           padded \in {box_of_pads(self, reset)} })

\* the box bounding_box() of an object of class Footprint, Polygon or FPLine
\* returns
object_bounding_box(o) ==
    IF o.cls = "Footprint" THEN footprint_bounding_box(o)
    ELSE IF o.cls = "Polygon"
    THEN [st |-> "ok", box |-> envelop(reset, polygon_corners(o)).box]
    ELSE [st |-> "ok", box |-> envelop(reset, fp_line_corners(o)).box]

RECURSIVE envelop_boxes(_, _)
envelop_boxes(outer, objects) ==
    IF objects = <<>> THEN [st |-> "ok", box |-> outer]
    ELSE Only({ IF b.st # "ok" THEN b
                ELSE envelop_boxes(IF b.box.valid
                                   THEN envelop(outer, Array(corners(b.box))).box
                                   ELSE outer,
                                   Tail(objects)) :
                b \in {object_bounding_box(Head(objects))} })

\* PCB.bounding_box(): the footprints, then the polygons, then the fp_lines
pcb_bounding_box(pcb) ==
    envelop_boxes(reset, instances(pcb, {"Footprint"})
                         \o instances(pcb, {"Polygon"})
                         \o instances(pcb, {"FPLine"}))

\* a number after += of an offset given in hundred-thousandths; the offset
\* is a float, and so is the sum
plus(a, offset) == Number(FALSE, Units(a) + offset, Units(a) + offset < 0)

\* Movable.move_xy(x, y)
move_xy(self, x, y) ==
    [self EXCEPT !.data = [i \in 1..Len(self.data) |->
        IF i = 1 THEN plus(self.data[1], x)
        ELSE IF i = 2 THEN plus(self.data[2], y)
        ELSE self.data[i]]]

\* Pts.move_xy(x, y)
pts_move_xy(self, x, y) ==
    [self EXCEPT !.data = [i \in 1..Len(self.data) |->
        IF self.data[i].name = W("xy") THEN move_xy(self.data[i], x, y)
        ELSE self.data[i]]]

\* Footprint.prepend_path(path)
prepend_path(self, path) ==
    [self EXCEPT !.data = [i \in 1..Len(self.data) |->
        IF IsNode(self.data[i]) /\ self.data[i].name = W("path")
        THEN [self.data[i] EXCEPT !.data[1] =
                 Quoted(<<"/">> \o path \o strip(self.data[i].data[1].s))]
        ELSE self.data[i]]]

\* TStamp.randomize(): uuid4() hands out the value to
randomize(self, to) == [self EXCEPT !.data[1] = [k |-> "str", s |-> to]]

\* the method call how, made on the object o
called(o, how) ==
    CASE how.op = "move_xy" ->
            IF o.cls = "Pts" THEN pts_move_xy(o, how.x, how.y)
            ELSE move_xy(o, how.x, how.y)
      [] how.op = "prepend_path" -> prepend_path(o, how.path)
      [] how.op = "randomize" -> randomize(o, how.to)

\* The tree n once the call how was made on the objects named in ids: an
\* object is changed wherever it is held
RECURSIVE changed(_, _, _)
changed(n, ids, how) ==
    LET below == [n EXCEPT !.data = [i \in 1..Len(n.data) |->
                     IF IsNode(n.data[i]) THEN changed(n.data[i], ids, how)
                     ELSE n.data[i]]]
    IN  IF n.id \in ids THEN called(below, how) ELSE below

ids_of(objects) == {objects[i].id : i \in 1..Len(objects)}

\* The receiver and the boards together: self is the receiver's tree, pcbs
\* the sequence of [uuid, pcb]
World(self, pcbs) == [self |-> self, pcbs |-> pcbs]

\* the call how made on the objects: every tree that holds one shows it
everywhere(w, objects, how) ==
    Only({ [self |-> changed(w.self, ids, how),
            pcbs |-> [i \in 1..Len(w.pcbs) |->
                        [w.pcbs[i] EXCEPT
                            !.pcb = changed(w.pcbs[i].pcb, ids, how)]]] :
           ids \in {ids_of(objects)} })

\* list.extend(str): one item for each character
characters(item) == [i \in 1..Len(item.s) |-> [k |-> "str", s |-> <<item.s[i]>>]]

values(entries) == [i \in 1..Len(entries) |-> entries[i].item]

\* lines 256-267: the receiver's children after the loop over the parts left
RECURSIVE copy_loop(_, _, _)
copy_loop(data, expr, parts) ==
    IF parts = <<>> THEN [st |-> "ok", data |-> data]
    ELSE LET sub_expr == __getattr__(expr, Head(parts)) IN
         IF sub_expr.r = "AttributeError"
         THEN copy_loop(data, expr, Tail(parts))
         ELSE IF sub_expr.r = "IndexError" THEN [st |-> "IndexError"]
         ELSE IF sub_expr.r = "list"
         THEN copy_loop(data \o sub_expr.items, expr, Tail(parts))
         ELSE IF sub_expr.r = "map"
         THEN copy_loop(data \o values(sub_expr.entries), expr, Tail(parts))
         ELSE IF IsNode(sub_expr.item)
         THEN copy_loop(data \o sub_expr.item.data, expr, Tail(parts))
         ELSE copy_loop(data \o characters(sub_expr.item), expr, Tail(parts))

\* the objects PCB.move() calls move_xy on
movables(pcb) == instances(pcb, {"Movable", "Pts", "Drawable"})

\* PCB.move(x, y) of the board pcb, as every tree shows it
moved(w, pcb, x, y) ==
    everywhere(w, movables(pcb), [op |-> "move_xy", x |-> x, y |-> y])

\* lines 244-267, one turn of the loop over pcbs: board i is moved, renamed
\* and copied; stamp is what uuid4() hands to its tstamps.  The boards tried
\* have a valid bounding box, and their footprints a path.
merge_one(w, i, stamp) ==
    Only({
        IF boxes[1].st # "ok" THEN [st |-> boxes[1].st]
        ELSE IF boxes[2].st # "ok" THEN [st |-> boxes[2].st]
        ELSE Only({
             Only({ IF copied.st # "ok" THEN [st |-> copied.st]
                    ELSE [st |-> "ok",
                          w |-> [renamed EXCEPT !.self.data = copied.data],
                          at |-> [target |-> boxes[1].box,
                                  box |-> pcb_bounding_box(
                                              renamed.pcbs[i].pcb).box]] :
                copied \in {copy_loop(renamed.self.data,
                                      renamed.pcbs[i].pcb, copy_parts)} }) :
                renamed \in
                   { everywhere(prepended,
                                instances(prepended.pcbs[i].pcb, {"TStamp"}),
                                [op |-> "randomize", to |-> stamp]) :
                     prepended \in
                        { everywhere(shifted,
                                     instances(shifted.pcbs[i].pcb, {"Footprint"}),
                                     [op |-> "prepend_path",
                                      path |-> shifted.pcbs[i].uuid]) :
                          shifted \in
                             { moved(w, w.pcbs[i].pcb,
                                     0 - boxes[2].box.min_x
                                       + boxes[1].box.max_x + 20 * 100000,
                                     0 - boxes[2].box.min_y) } } } }) :
        boxes \in { [b \in 1..2 |->
                       pcb_bounding_box(IF b = 1 THEN w.self
                                        ELSE w.pcbs[i].pcb)] } })

\* lines 236-267: the receiver moved to the origin (i = 0), then the loop
\* over pcbs from board i on
RECURSIVE merge_from(_, _, _)
merge_from(w, i, stamps) ==
    IF i > Len(w.pcbs) THEN [st |-> "ok", w |-> w, log |-> <<>>]
    ELSE Only({ IF merged.st # "ok" THEN merged
                ELSE Only({ IF rest.st # "ok" THEN rest
                            ELSE [rest EXCEPT !.log = <<merged.at>> \o @] :
                            rest \in {merge_from(merged.w, i + 1, stamps)} }) :
                merged \in
                   { IF i > 0 THEN merge_one(w, i, stamps[i])
                     ELSE Only({ IF target_box.st # "ok"
                                 THEN [st |-> target_box.st]
                                 ELSE Only({
                                      [st |-> "ok", w |-> shifted,
                                       at |-> [target |-> target_box.box,
                                               box |-> pcb_bounding_box(
                                                           shifted.self).box]] :
                                      shifted \in
                                         {moved(w, w.self,
                                                0 - target_box.box.min_x,
                                                0 - target_box.box.min_y)} }) :
                                 target_box \in {pcb_bounding_box(w.self)} }) } })

\* PCB.append(pcbs)
append(self, pcbs, stamps) ==
    Only({ IF merged.st # "ok" THEN merged
           ELSE [st |-> "ok",
                 w |-> [merged.w EXCEPT !.self = parsed(merged.w.self)],
                 log |-> merged.log] :
           merged \in {merge_from(World(self, pcbs), 0, stamps)} })

\* The boards tried.  The object (b, i) is the i-th child of board b's root.
MaxBoards == 2

Sym(s) == [k |-> "str", s |-> W(s)]

\* (footprint "lib" (at x y) (path "/p") (pad "1" smd rect (at 0 0) (size 2 2)))
FootprintAt(id, lib, x, y) ==
    Obj(id, W("footprint"), W("kicad_pcb"),
        << Quoted(W(lib)),
           Obj(id \o <<1>>, W("at"), W("footprint"), <<I(x), I(y)>>),
           Obj(id \o <<2>>, W("path"), W("footprint"), <<Quoted(<<"/", "p">>)>>),
           Obj(id \o <<3>>, W("pad"), W("footprint"),
               << Quoted(W("1")), Sym("smd"), Sym("rect"),
                  Obj(id \o <<3, 1>>, W("at"), W("pad"), <<I(0), I(0)>>),
                  Obj(id \o <<3, 2>>, W("size"), W("pad"), <<I(2), I(2)>>) >>) >>)

\* (footprint "lib" (at x y) (path "/p") (pad ...) (fp_line (start -3 -3) (end 3 3)))
LinedFootprintAt(id, lib, x, y) ==
    Obj(id, W("footprint"), W("kicad_pcb"),
        FootprintAt(id, lib, x, y).data \o
        << Obj(id \o <<4>>, W("fp_line"), W("footprint"),
               << Obj(id \o <<4, 1>>, W("start"), W("fp_line"),
                      <<I(0 - 3), I(0 - 3)>>),
                  Obj(id \o <<4, 2>>, W("end"), W("fp_line"),
                      <<I(3), I(3)>>) >>) >>)

\* (footprint "lib" (at x y) (path "/p") (pad ...) (property "Sheetfile" "a"))
PropertyFootprintAt(id, lib, x, y) ==
    Obj(id, W("footprint"), W("kicad_pcb"),
        FootprintAt(id, lib, x, y).data \o
        << Obj(id \o <<4>>, W("property"), W("footprint"),
               <<Quoted(W("Sheetfile")), Quoted(W("a"))>>) >>)

\* (footprint "lib" (at x y) (path "/p") (pad ...)
\*   (pad "2" smd custom (at 0 0) (size 1 1)
\*     (primitives (gr_poly (pts (xy 0 0) (xy 1 1))))))
CustomPadFootprintAt(id, lib, x, y) ==
    Obj(id, W("footprint"), W("kicad_pcb"),
        FootprintAt(id, lib, x, y).data \o
        << Obj(id \o <<4>>, W("pad"), W("footprint"),
               << Quoted(W("2")), Sym("smd"), Sym("custom"),
                  Obj(id \o <<4, 1>>, W("at"), W("pad"), <<I(0), I(0)>>),
                  Obj(id \o <<4, 2>>, W("size"), W("pad"), <<I(1), I(1)>>),
                  Obj(id \o <<4, 3>>, W("primitives"), W("pad"),
                      << Obj(id \o <<4, 3, 1>>, W("gr_poly"), W("primitives"),
                             << [k |-> "node", id |-> id \o <<4, 3, 1, 1>>,
                                 cls |-> Variant(W("pts"), W("gr_poly"),
                                                 W("primitives")),
                                 name |-> W("pts"),
                                 data |->
                                    << Obj(id \o <<4, 3, 1, 1, 1>>, W("xy"),
                                           W("pts"), <<I(0), I(0)>>),
                                       Obj(id \o <<4, 3, 1, 1, 2>>, W("xy"),
                                           W("pts"), <<I(1), I(1)>>) >>,
                                 known |-> {W("xy")},
                                 more |-> {W("xy")}] >>) >>) >>) >>)

\* (zone (polygon (pts (xy x y) (xy x+4 y) (xy x+4 y+6))))
ZoneAt(id, x, y) ==
    Obj(id, W("zone"), W("kicad_pcb"),
        << Obj(id \o <<1>>, W("polygon"), W("zone"),
               << Obj(id \o <<1, 1>>, W("pts"), W("polygon"),
                      << Obj(id \o <<1, 1, 1>>, W("xy"), W("pts"), <<I(x), I(y)>>),
                         Obj(id \o <<1, 1, 2>>, W("xy"), W("pts"),
                             <<I(x + 4), I(y)>>),
                         Obj(id \o <<1, 1, 3>>, W("xy"), W("pts"),
                             <<I(x + 4), I(y + 6)>>) >>) >>) >>)

\* (via (at x y) (size 1))
ViaAt(id, x, y) ==
    Obj(id, W("via"), W("kicad_pcb"),
        << Obj(id \o <<1>>, W("at"), W("via"), <<I(x), I(y)>>),
           Obj(id \o <<2>>, W("size"), W("via"), <<I(1)>>) >>)

\* (segment (start x y) (end x+1 y) (tstamp t))
SegmentAt(id, x, y) ==
    Obj(id, W("segment"), W("kicad_pcb"),
        << Obj(id \o <<1>>, W("start"), W("segment"), <<I(x), I(y)>>),
           Obj(id \o <<2>>, W("end"), W("segment"), <<I(x + 1), I(y)>>),
           Obj(id \o <<3>>, W("tstamp"), W("segment"), <<Sym("t0")>>) >>)

\* (gr_text "text" (at x y))
TextAt(id, text, x, y) ==
    Obj(id, W("gr_text"), W("kicad_pcb"),
        << Quoted(W(text)),
           Obj(id \o <<1>>, W("at"), W("gr_text"), <<I(x), I(y)>>) >>)

Element(id, what) ==
    LET x == 3 * id[2]
        y == id[2]
    IN  CASE what = "via" -> ViaAt(id, x, y)
          [] what = "segment" -> SegmentAt(id, x, y)
          [] what = "gr_text" -> TextAt(id, "hi", x, y)
          [] what = "zone" -> ZoneAt(id, x, y)
          [] what = "P" -> PropertyFootprintAt(id, what, x, y)
          [] what = "custom" -> CustomPadFootprintAt(id, what, x, y)
          [] what = "L" -> LinedFootprintAt(id, what, x + 7, y + 9)
          [] OTHER -> FootprintAt(id, what, x, y)

\* (kicad_pcb (version 20211014) elements...)
BoardOf(b, elements) ==
    Obj(<<b>>, W("kicad_pcb"), <<>>,
        <<Obj(<<b, 0>>, W("version"), W("kicad_pcb"), <<I(20211014)>>)>>
        \o [i \in 1..Len(elements) |-> Element(<<b, i>>, elements[i])])

BoardKinds ==
    { <<"B">>, <<"B", "C">>, <<"B", "B">>, <<"B", "via">>,
      <<"B", "C", "via", "via">>, <<"B", "C", "gr_text", "gr_text">>,
      <<"B", "segment">>, <<"B", "C", "segment", "segment">>,
      <<"L", "C">>, <<"B", "C", "zone">> }

ReceiverKinds ==
    { <<"A">>, <<"A", "via">>, <<"A", "A2", "segment">>, <<"L">>,
      <<"A", "zone">> }

NewStamps == {W("n1"), W("n2")}

BoardUuids == <<W("U1"), W("U2"), W("U3")>>

Offsets == {<<1000000, 0>>, <<0 - 250000, 500000>>}

MergeIdle ==
    /\ g_self = <<>> /\ g_pcbs = <<>> /\ g_pc = "idle" /\ g_before = <<>>
    /\ g_placed = <<>>

\* receiver = PCB(...); boards = [(uuid, PCB(...)), ...]
MergeInit ==
    /\ \E kind \in ReceiverKinds : g_self = BoardOf(0, kind)
    /\ \E n \in 1..MaxBoards : \E kinds \in [1..n -> BoardKinds] :
          g_pcbs = [i \in 1..n |->
                       [uuid |-> BoardUuids[i], pcb |-> BoardOf(i, kinds[i])]]
    /\ g_pc = "made"
    /\ g_before = <<>>
    /\ g_placed = <<>>

\* receiver.append(boards)
DoAppend ==
    /\ g_pc = "made"
    /\ \E stamps \in [1..Len(g_pcbs) -> NewStamps] :
          \E r \in {append(g_self, g_pcbs, stamps)} :
             /\ r.st = "ok"
             /\ g_self' = r.w.self
             /\ g_pcbs' = r.w.pcbs
             /\ g_placed' = r.log
    /\ g_before' = g_self
    /\ g_pc' = "appended"
    /\ MergeFrame

\* boards[i].move(x, y), after the append
DoMove ==
    /\ g_pc = "appended"
    /\ \E i \in 1..Len(g_pcbs) : \E offset \in Offsets :
          \E w \in {moved(World(g_self, g_pcbs), g_pcbs[i].pcb,
                          offset[1], offset[2])} :
             /\ g_self' = w.self
             /\ g_pcbs' = w.pcbs
    /\ g_before' = g_self
    /\ g_pc' = "moved"
    /\ UNCHANGED g_placed
    /\ MergeFrame

MergeNext == DoAppend \/ DoMove


-----------------------------------------------------------------------------
(* Foot component: Footprint.bounding_box on one footprint                   *)

\* (pad "name" smd rect (at x y) (size 2 2)), the k-th child of the footprint
PadAt(k, name, x, y) ==
    Obj(<<k>>, W("pad"), W("footprint"),
        << Quoted(W(name)), Sym("smd"), Sym("rect"),
           Obj(<<k, 1>>, W("at"), W("pad"), <<I(x), I(y)>>),
           Obj(<<k, 2>>, W("size"), W("pad"), <<I(2), I(2)>>) >>)

\* (fp_line (start sx sy) (end ex ey)), the k-th child of the footprint
LineAt(k, sx, sy, ex, ey) ==
    Obj(<<k>>, W("fp_line"), W("footprint"),
        << Obj(<<k, 1>>, W("start"), W("fp_line"), <<I(sx), I(sy)>>),
           Obj(<<k, 2>>, W("end"), W("fp_line"), <<I(ex), I(ey)>>) >>)

\* the pads and the fp_lines tried
PadLists ==
    { <<>>, <<PadAt(1, "1", 0, 0)>>, <<PadAt(1, "1", 4, 1)>>,
      <<PadAt(1, "1", 0, 0), PadAt(2, "2", 4, 1)>>,
      <<PadAt(1, "1", 0, 0), PadAt(2, "1", 4, 1)>> }

LineLists ==
    { <<>>, <<LineAt(3, 0 - 3, 0 - 3, 3, 3)>>, <<LineAt(3, 0, 5, 6, 5)>>,
      <<LineAt(3, 0 - 3, 0 - 3, 3, 3), LineAt(4, 0, 5, 6, 5)>> }

\* (at x y) and (at x y angle)
Anchors == { <<I(0), I(0)>>, <<I(10), I(20)>>, <<I(10), I(20), I(90)>> }

\* the leading children: the library name from_str keeps as the first child,
\* or none for a footprint built without it
Leading == { <<>>, <<Quoted(W("A"))>> }

FootIdle == f_self = <<>> /\ f_box = <<>> /\ f_pc = "idle"

\* footprint = from_str('(footprint "A" (at ...) pads... fp_lines...)')
FootInit ==
    /\ \E leading \in Leading : \E anchor \in Anchors :
       \E pads \in PadLists : \E lines \in LineLists :
          f_self = Obj(<<0>>, W("footprint"), W("kicad_pcb"),
                       leading
                       \o <<Obj(<<0, 1>>, W("at"), W("footprint"), anchor)>>
                       \o pads \o lines)
    /\ f_box = <<>>
    /\ f_pc = "made"

\* footprint.bounding_box()
DoBoundingBox ==
    /\ f_pc = "made"
    /\ f_box' = footprint_bounding_box(f_self)
    /\ f_pc' = "measured"
    /\ UNCHANGED f_self
    /\ FootFrame

FootNext == DoBoundingBox


-----------------------------------------------------------------------------
(* Move component: PCB.move on one board                                     *)

\* what move_xy does on the object o: "ok", or the error of the first +=
\* that fails
move_xy_outcome(o) ==
    IF o.cls = "Pts"
    THEN IF \E i \in 1..Len(o.data) : ~IsNode(o.data[i])
         THEN "AttributeError"
         ELSE IF \E i \in 1..Len(o.data) :
                    /\ o.data[i].name = W("xy")
                    /\ (o.data[i].data = <<>> \/ Len(o.data[i].data) = 1)
         THEN "IndexError"
         ELSE IF \E i \in 1..Len(o.data) :
                    /\ o.data[i].name = W("xy")
                    /\ \/ ~IsNumber(o.data[i].data[1])
                       \/ ~IsNumber(o.data[i].data[2])
         THEN "TypeError"
         ELSE "ok"
    ELSE IF o.data = <<>> THEN "IndexError"
    ELSE IF ~IsNumber(o.data[1]) THEN "TypeError"
    ELSE IF Len(o.data) = 1 THEN "IndexError"
    ELSE IF ~IsNumber(o.data[2]) THEN "TypeError"
    ELSE "ok"

\* the place among objects of the first one move_xy fails on, or 0
first_failing(objects) ==
    IF \E i \in 1..Len(objects) : move_xy_outcome(objects[i]) # "ok"
    THEN SetMin({i \in 1..Len(objects) :
                    move_xy_outcome(objects[i]) # "ok"})
    ELSE 0

\* PCB.move(x, y): apply() calls move_xy on the Movable objects in the order
\* it meets them and stops at the first call that raises.  The objects tried
\* fail, when they do, before their first +=.
move(pcb, x, y) ==
    Only({ Only({ IF stop = 0
                  THEN [st |-> "ok",
                        pcb |-> changed(pcb, ids_of(objects),
                                        [op |-> "move_xy", x |-> x, y |-> y])]
                  ELSE [st |-> move_xy_outcome(objects[stop]),
                        pcb |-> changed(pcb,
                                        ids_of(SubSeq(objects, 1, stop - 1)),
                                        [op |-> "move_xy", x |-> x, y |-> y])] :
                  stop \in {first_failing(objects)} }) :
           objects \in {movables(pcb)} })

\* the boards tried: one or two elements each
MoveKinds ==
    { "A", "via", "segment", "gr_text", "zone", "L", "P", "custom" }

MoveIdle ==
    /\ k_pcb = <<>> /\ k_before = <<>> /\ k_offset = <<>>
    /\ k_result = "none" /\ k_pc = "idle"

\* board = PCB(from_str(...), name, file_name)
MoveInit ==
    /\ \E n \in 1..2 : \E kinds \in [1..n -> MoveKinds] :
          k_pcb = BoardOf(1, kinds)
    /\ k_before = <<>>
    /\ k_offset = <<>>
    /\ k_result = "none"
    /\ k_pc = "made"

\* board.move(x, y)
DoPcbMove ==
    /\ k_pc = "made"
    /\ \E offset \in Offsets :
          \E r \in {move(k_pcb, offset[1], offset[2])} :
             /\ k_offset' = offset
             /\ k_pcb' = r.pcb
             /\ k_result' = r.st
    /\ k_before' = k_pcb
    /\ k_pc' = "moved"
    /\ MoveFrame

MoveNext == DoPcbMove

-----------------------------------------------------------------------------
(* Specifications: one per component, the others standing still             *)

InitParser == ParserInit /\ BBoxIdle /\ TypedIdle /\ ProjIdle /\ SheetsIdle /\ NetIdle /\ DrawIdle /\ BomIdle /\ MergeIdle /\ FootIdle /\ MoveIdle

SpecParser == InitParser /\ [][ParserNext]_vars

InitBBox == BBoxInit /\ ParserIdle /\ TypedIdle /\ ProjIdle /\ SheetsIdle /\ NetIdle /\ DrawIdle /\ BomIdle /\ MergeIdle /\ FootIdle /\ MoveIdle

SpecBBox == InitBBox /\ [][BBoxNext]_vars

InitTyped == TypedInit /\ ParserIdle /\ BBoxIdle /\ ProjIdle /\ SheetsIdle /\ NetIdle /\ DrawIdle /\ BomIdle /\ MergeIdle /\ FootIdle /\ MoveIdle

SpecTyped == InitTyped /\ [][TypedNext]_vars

InitProject == ProjInit /\ ParserIdle /\ BBoxIdle /\ TypedIdle /\ SheetsIdle /\ NetIdle /\ DrawIdle /\ BomIdle /\ MergeIdle /\ FootIdle /\ MoveIdle

SpecProject == InitProject /\ [][ProjNext]_vars

InitSheets == SheetsInit /\ ParserIdle /\ BBoxIdle /\ TypedIdle /\ ProjIdle /\ NetIdle /\ DrawIdle /\ BomIdle /\ MergeIdle /\ FootIdle /\ MoveIdle

SpecSheets == InitSheets /\ [][SheetsNext]_vars

InitNet == NetInit /\ ParserIdle /\ BBoxIdle /\ TypedIdle /\ ProjIdle /\ SheetsIdle /\ DrawIdle /\ BomIdle /\ MergeIdle /\ FootIdle /\ MoveIdle

SpecNet == InitNet /\ [][NetNext]_vars

InitDraw == DrawInit /\ ParserIdle /\ BBoxIdle /\ TypedIdle /\ ProjIdle /\ SheetsIdle /\ NetIdle /\ BomIdle /\ MergeIdle /\ FootIdle /\ MoveIdle

SpecDraw == InitDraw /\ [][DrawNext]_vars

InitBom == BomInit /\ ParserIdle /\ BBoxIdle /\ TypedIdle /\ ProjIdle /\ SheetsIdle /\ NetIdle /\ DrawIdle /\ MergeIdle /\ FootIdle /\ MoveIdle

SpecBom == InitBom /\ [][BomNext]_vars

InitMerge == MergeInit /\ ParserIdle /\ BBoxIdle /\ TypedIdle /\ ProjIdle /\ SheetsIdle /\ NetIdle /\ DrawIdle /\ BomIdle /\ FootIdle /\ MoveIdle

SpecMerge == InitMerge /\ [][MergeNext]_vars

InitFoot == FootInit /\ ParserIdle /\ BBoxIdle /\ TypedIdle /\ ProjIdle /\ SheetsIdle /\ NetIdle /\ DrawIdle /\ BomIdle /\ MergeIdle /\ MoveIdle

SpecFoot == InitFoot /\ [][FootNext]_vars

InitMove == MoveInit /\ ParserIdle /\ BBoxIdle /\ TypedIdle /\ ProjIdle /\ SheetsIdle /\ NetIdle /\ DrawIdle /\ BomIdle /\ MergeIdle /\ FootIdle

SpecMove == InitMove /\ [][MoveNext]_vars

-----------------------------------------------------------------------------
(* Properties of the parser (C1 .. C5)                                       *)

\* The child nodes of n tagged tag, in document order
Occurrences(n, tag) ==
    SelectSeq(n.data, LAMBDA c : IsNode(c) /\ c.name = tag)

\* Two occurrences carry the same first field
SameFirstField(occ) ==
    \E i, j \in 1..Len(occ) :
        /\ i < j
        /\ occ[i].data # <<>>
        /\ occ[j].data # <<>>
        /\ occ[i].data[1] = occ[j].data[1]

C1_Example ==
    <<"(", "n">> \o L("property", Sp \o Q("A") \o Sp \o W("1"))
                 \o L("property", Sp \o Q("B") \o Sp \o W("2"))
                 \o L("property", Sp \o Q("A") \o Sp \o W("3")) \o <<")">>

\* C1: when a tag occurs twice or more among a node's children and two of
\* the occurrences carry the same first field, looking the tag up gives the
\* list of all the occurrences in document order.
C1_DuplicateKeysGiveList ==
    (/\ p_pc = "looked"
     /\ Len(Occurrences(res.expr, look.tag)) >= 2
     /\ SameFirstField(Occurrences(res.expr, look.tag)))
    => (/\ look.r.r = "list"
        /\ look.r.items = Occurrences(res.expr, look.tag))

\* C1: the three-property example is looked up and gives a map of two
\* entries, the entry for A holding the third property.
C1_ExampleGivesMap ==
    /\ p_pc = "looked"
    /\ src = C1_Example
    /\ look.tag = W("property")
    /\ look.r.r = "map"
    /\ Len(look.r.entries) = 2
    /\ look.r.entries[1].key = W("A")
    /\ look.r.entries[1].item = res.expr.data[3]

\* Every occurrence has a string first field, and no two have the same one
DistinctStringFirsts(occ) ==
    /\ \A i \in 1..Len(occ) : occ[i].data # <<>> /\ IsStr(occ[i].data[1])
    /\ \A i, j \in 1..Len(occ) :
          i # j => occ[i].data[1].s # occ[j].data[1].s

NodeFirst(occ) ==
    \E i \in 1..Len(occ) : occ[i].data # <<>> /\ IsNode(occ[i].data[1])

\* C2: looking a tag up on a node fails with AttributeError when no child
\* has the tag, gives the child when exactly one has it, gives a map with
\* one entry per occurrence keyed by the unquoted first field when the
\* occurrences have pairwise distinct string first fields, and gives the
\* list of the occurrences when one of them has a node as first field,
\* whatever the node's other children are.
C2_ThreeWayResolution ==
    p_pc = "looked" =>
        LET occ == Occurrences(res.expr, look.tag) IN
        /\ Len(occ) = 0 => look.r.r = "AttributeError"
        /\ Len(occ) = 1 => look.r.r = "single" /\ look.r.item = occ[1]
        /\ (Len(occ) >= 2 /\ DistinctStringFirsts(occ)) =>
              /\ look.r.r = "map"
              /\ Len(look.r.entries) = Len(occ)
              /\ \A i \in 1..Len(occ) :
                    /\ look.r.entries[i].key = strip(occ[i].data[1].s)
                    /\ look.r.entries[i].item = occ[i]
        /\ (Len(occ) >= 2 /\ NodeFirst(occ)) =>
              look.r.r = "list" /\ look.r.items = occ

\* C2: a tag that occurs once, after a number, is looked up and the lookup
\* fails with AttributeError.
C2_NumberBeforeTagFails ==
    /\ p_pc = "looked"
    /\ src = <<"(", "n">> \o Sp \o W("5") \o L("pin", Sp \o W("7")) \o <<")">>
    /\ look.tag = W("pin")
    /\ Len(Occurrences(res.expr, look.tag)) = 1
    /\ look.r.r = "AttributeError"

\* C3: for a well-formed text, parsing the serialization of the parsed tree
\* gives a tree equal to the parsed tree (tags, child order, atom kinds and
\* values, variant of each node).
C3_RoundTrip ==
    (p_pc = "reparsed" /\ src \in WellFormedTexts)
    => (res2.st = "ok" /\ res2.expr = res.expr)

\* C3: a text with float atoms and a footprint child has been parsed,
\* serialized to a text other than the input, and parsed again.
C3_RoundTripSeen ==
    /\ p_pc = "reparsed"
    /\ src \in WellFormedTexts
    /\ out # src
    /\ \E i \in 1..Len(res.expr.data) : res.expr.data[i].k = "float"
    /\ \E i \in 1..Len(res.expr.data) :
          /\ IsNode(res.expr.data[i])
          /\ res.expr.data[i].cls = "Footprint"
    /\ res2.st = "ok"

\* Open-parens minus close-parens among the first k tokens
RECURSIVE Depth(_, _)
Depth(tokens, k) ==
    IF k = 0 THEN 0
    ELSE Depth(tokens, k - 1)
         + (IF tokens[k] = W("(") THEN 1
            ELSE IF tokens[k] = W(")") THEN 0 - 1 ELSE 0)

\* The list opened by the first token is still open when the tokens end
Unclosed(tokens) ==
    /\ tokens # <<>>
    /\ tokens[1] = W("(")
    /\ \A k \in 1..Len(tokens) : Depth(tokens, k) >= 1

\* C4: when the tokens end inside an unclosed list, from_str fails with
\* SyntaxError "unexpected EOF" and with no other failure.
C4_UnclosedIsSyntaxError ==
    (p_pc = "parsed" /\ Unclosed(TOKENIZE_EXPR(src)))
    => (res.st = "SyntaxError" /\ res.msg = "unexpected EOF")

\* C4: the text "( a" is parsed and the failure is an IndexError.
C4_UnclosedIsIndexError ==
    /\ p_pc = "parsed"
    /\ src = <<"(", " ", "a">>
    /\ Unclosed(TOKENIZE_EXPR(src))
    /\ res.st = "IndexError"

\* A close-paren that matches no open-paren, or stands where a tag is due
StrayClose(tokens) ==
    \/ \E k \in 1..Len(tokens) : Depth(tokens, k) < 0
    \/ \E k \in 1..(Len(tokens) - 1) :
          tokens[k] = W("(") /\ tokens[k + 1] = W(")")

\* The tokens are exactly one atom, or one balanced list in which every
\* open-paren is followed by a tag
OneExpression(tokens) ==
    \/ Len(tokens) = 1 /\ tokens[1] \notin {W("("), W(")")}
    \/ /\ Len(tokens) >= 3
       /\ tokens[1] = W("(")
       /\ Depth(tokens, Len(tokens)) = 0
       /\ \A k \in 1..(Len(tokens) - 1) :
             /\ Depth(tokens, k) >= 1
             /\ tokens[k] = W("(") => tokens[k + 1] \notin {W("("), W(")")}

\* C5: from_str fails with SyntaxError on tokens with a stray close-paren,
\* and returns a tree only for tokens that are exactly one balanced
\* expression.
C5_StrayCloseIsSyntaxError ==
    p_pc = "parsed" =>
        /\ StrayClose(TOKENIZE_EXPR(src)) => res.st = "SyntaxError"
        /\ res.st = "ok" => OneExpression(TOKENIZE_EXPR(src))

\* C5: the text "( a 1 ) )" is parsed and from_str returns the tree of
\* "(a 1)".
C5_TrailingCloseAccepted ==
    /\ p_pc = "parsed"
    /\ src = <<"(", " ", "a", " ", "1", " ", ")", " ", ")">>
    /\ StrayClose(TOKENIZE_EXPR(src))
    /\ res.st = "ok"
    /\ res.expr.name = W("a")

-----------------------------------------------------------------------------
(* Properties of BoundingBox (C6 .. C8)                                      *)

\* The call that gave the present box
last_call == hist[Len(hist)]

\* b holds the point p
Holds(b, p) ==
    /\ b.min_x <= p[1] /\ p[1] <= b.max_x
    /\ b.min_y <= p[2] /\ p[2] <= b.max_y

\* An envelop call, or the constructor's, that was given points
EnvelopWithPoints(call) ==
    call.op \in {"envelop", "__init__"} /\ HasPoints(call.arg)

\* C6: a box is Empty (the state reset leaves) exactly until an envelop
\* call with at least one point; translate, rotate and envelop without
\* points leave an Empty box as it is; envelop, translate and rotate leave a
\* Valid box Valid.
C6_StateMachine ==
    hist # <<>> =>
        /\ box.valid <=> filled
        /\ ~box.valid => box = reset
        /\ (/\ Len(hist) >= 2
            /\ ~prev.valid
            /\ \/ last_call.op \in {"translate", "rotate"}
               \/ last_call.op = "envelop" /\ last_call.arg.kind = "None"
               \/ last_call.op = "envelop" /\ last_call.arg.n = 0)
           => (box = prev /\ ~box.valid)
        /\ (/\ Len(hist) >= 2
            /\ prev.valid
            /\ last_call.op \in {"envelop", "translate", "rotate"})
           => box.valid

\* C6: a box built without points, then given points, then rotated by 90,
\* is Valid.
C6_EmptyFilledRotated ==
    /\ Len(hist) = 3
    /\ hist[1].arg.kind = "None"
    /\ hist[2].op = "envelop" /\ HasPoints(hist[2].arg)
    /\ hist[3].op = "rotate" /\ hist[3].arg = 90
    /\ prev.valid
    /\ box.valid

\* C7: after an envelop call the box holds the points given and the box
\* held before; its minima have not increased and its maxima, width, height
\* and area have not decreased; after two envelop calls in a row it holds
\* the points of both; a Valid box has min_x <= max_x and min_y <= max_y.
C7_EnvelopMonotone ==
    /\ box.valid => (box.min_x <= box.max_x /\ box.min_y <= box.max_y)
    /\ (Len(hist) >= 2 /\ last_call.op = "envelop") =>
          /\ box.min_x <= prev.min_x /\ box.min_y <= prev.min_y
          /\ box.max_x >= prev.max_x /\ box.max_y >= prev.max_y
          /\ width(box) >= width(prev)
          /\ height(box) >= height(prev)
          /\ area(box) >= area(prev)
          /\ HasPoints(last_call.arg) =>
                \A i \in 1..Len(last_call.arg.rows) :
                    Holds(box, last_call.arg.rows[i])
          /\ (HasPoints(last_call.arg)
              /\ EnvelopWithPoints(hist[Len(hist) - 1])) =>
                \A i \in 1..Len(hist[Len(hist) - 1].arg.rows) :
                    Holds(box, hist[Len(hist) - 1].arg.rows[i])

\* C7: two envelop calls with points in a row, the second one growing a
\* Valid box.
C7_SecondEnvelopGrows ==
    /\ Len(hist) >= 3
    /\ EnvelopWithPoints(hist[Len(hist) - 1])
    /\ last_call.op = "envelop" /\ HasPoints(last_call.arg)
    /\ prev.valid
    /\ box # prev
    /\ area(box) > area(prev)

\* C8: rotate(0) and rotate(360) leave the corners of a Valid box as they
\* were.
C8_RotateIdentity ==
    (/\ Len(hist) >= 2
     /\ last_call.op = "rotate"
     /\ last_call.arg \in {0, 360}
     /\ prev.valid)
    => corners(box) = corners(prev)

\* C8: the box of the single point (-1, 3) is rotated by 360 and becomes the
\* box of the point (1.306, 1.522).
C8_FullTurnMovesBox ==
    /\ Len(hist) >= 2
    /\ last_call.op = "rotate"
    /\ last_call.arg = 360
    /\ prev.valid
    /\ corners(prev)[1] = PC /\ corners(prev)[3] = PC
    /\ corners(box)[1] = <<1306, 1522>> /\ corners(box)[3] = <<1306, 1522>>

-----------------------------------------------------------------------------
(* Properties of the typed Schematic record (C9)                             *)

\* The (version ...) items of the list given to from_list
VersionItems ==
    {i \in 1..Len(t_expr) : t_expr[i].a = "list" /\ t_expr[i].kw = W("version")}

\* The list states a version, and every version it states is another one
\* than the supported one
VersionDiffers ==
    /\ VersionItems # {}
    /\ \A i \in VersionItems :
          t_expr[i].args # <<>> /\ ~version_ok(t_expr[i].args[1])

\* C9: when the list states a version other than 20211123, from_list ends
\* with the validation error of the version field, and no keyword of the
\* list has been looked up, converted or recursed into by then.
C9_VersionFirst ==
    (t_pc = "done" /\ VersionDiffers)
    => (/\ t_result = TErr("ValidationError", {"version"})
        /\ t_touched = <<>>
        /\ t_idx = 0)

\* C9: a list with an unknown keyword before an old version has been
\* rejected for its version.
C9_BogusBeforeOldVersion ==
    /\ t_pc = "done"
    /\ VersionDiffers
    /\ Len(t_expr) >= 2
    /\ Bogus(t_expr[1])
    /\ t_expr[2] = TList("version", <<TAtom(V5)>>)
    /\ t_result = TErr("ValidationError", {"version"})
    /\ t_touched = <<>>

-----------------------------------------------------------------------------
(* Properties of Project.parse (C10)                                         *)

\* The version the root schematic file states
RootVersion == first_of(Get(fs, sch_file_name), W("version")).v.i

\* parse has opened the root schematic and nothing else, and has recorded
\* nothing
NothingProcessed ==
    /\ j_opened = <<sch_file_name>>
    /\ j_symbol_instances = <<>>
    /\ j_schematics = <<>>
    /\ j_fn_to_uuid = <<>>

-----------------------------------------------------------------------------
(* C11: merged sheets                                                        *)

\* The rectangle of a sheet block: (at x y) to (x + size w, y + size h)
Rect(sheet) ==
    [x1 |-> sheet.at[1], y1 |-> sheet.at[2],
     x2 |-> sheet.at[1] + sheet.size[1], y2 |-> sheet.at[2] + sheet.size[2]]

Overlap(r, s) == r.x1 < s.x2 /\ s.x1 < r.x2 /\ r.y1 < s.y2 /\ s.y1 < r.y2

\* C11: the rectangles of the sheets appended by Schematic.append are
\* pairwise non-overlapping, and every sheet's x lies between 20.0 and 270.0
C11_SheetsDisjoint ==
    /\ \A i, k \in 1..Len(a_sheets) :
          i < k => ~Overlap(Rect(a_sheets[i]), Rect(a_sheets[k]))
    /\ \A i \in 1..Len(a_sheets) :
          a_sheets[i].at[1] >= 20000 /\ a_sheets[i].at[1] <= 270000

\* C11, the part that holds: every sheet's x lies between 20.0 and 270.0
C11_XWithinPage ==
    \A i \in 1..Len(a_sheets) :
        a_sheets[i].at[1] >= 20000 /\ a_sheets[i].at[1] <= 270000

\* append has returned for a schematic with a long label name followed by
\* one without labels, and their two sheets overlap
C11_NeighboursOverlap ==
    /\ a_result = JRes("ok")
    /\ Len(a_sheets) = 2
    /\ a_sheets[1].size = <<27940, 7620>>
    /\ a_sheets[2].at = <<47620, 20000>>
    /\ Overlap(Rect(a_sheets[1]), Rect(a_sheets[2]))

-----------------------------------------------------------------------------
(* C12: Net.rename                                                           *)

\* Where the name and the number of a net of one of the three shapes are
NamePos(net) ==
    IF net.name = W("net_name") THEN 1
    ELSE IF Len(net.data) = 2 THEN 2 ELSE 0

NumberPos(net) == IF net.name = W("net") THEN 1 ELSE 0

Renamed == n_count > 0

\* C12: rename replaces the name by names[name] exactly when the name is a
\* key of names and the number by numbers[number] exactly when the number is
\* a key of numbers; every other child, the child count and the tag are
\* unchanged, and with no matching key the net is unchanged
C12_RenameSelective ==
    Renamed =>
        /\ n_net.name = n_before.name
        /\ n_net.cls = n_before.cls
        /\ Len(n_net.data) = Len(n_before.data)
        /\ \A i \in 1..Len(n_before.data) :
              n_net.data[i] =
                  IF i = NamePos(n_before) /\ In(n_before.data[i], n_names)
                  THEN n_names[n_before.data[i]]
                  ELSE IF i = NumberPos(n_before)
                          /\ In(n_before.data[i], n_numbers)
                  THEN n_numbers[n_before.data[i]]
                  ELSE n_before.data[i]
        /\ (\A i \in 1..Len(n_before.data) :
               ~In(n_before.data[i], n_names)
               /\ ~In(n_before.data[i], n_numbers)) => n_net = n_before

\* A net with a number and a name had both replaced
C12_BothReplaced ==
    /\ Renamed
    /\ Len(n_before.data) = 2
    /\ In(n_before.data[1], n_numbers)
    /\ In(n_before.data[2], n_names)
    /\ n_net.data[1] # n_before.data[1]
    /\ n_net.data[2] # n_before.data[2]

-----------------------------------------------------------------------------
(* C13: drawing a rectangle                                                  *)

Drawn == d_pc = "drawn" /\ d_out.st = "ok"

\* A corner coordinate of the rectangle drawn, in hundred-thousandths
Corner(name, i) == Units(sub_number(d_self, W(name), i).v)

\* An attribute of the element, read back as a number
Emitted(elem, key) == Units(atom(Get(elem.data, key)[1]))

Min(a, b) == IF b < a THEN b ELSE a

\* The rectangle with the values of start and end exchanged
Swapped(self) ==
    [self EXCEPT !.data =
        [i \in 1..Len(self.data) |->
            IF self.data[i].name = W("start")
            THEN [self.data[i] EXCEPT
                     !.data = sub_node(self, W("end")).v.data]
            ELSE IF self.data[i].name = W("end")
            THEN [self.data[i] EXCEPT
                     !.data = sub_node(self, W("start")).v.data]
            ELSE self.data[i]]]

\* C13: draw emits width = |start.x - end.x|, height = |start.y - end.y|,
\* x = origin.x + min(start.x, end.x), y = min(origin.y - start.y,
\* origin.y - end.y), and the rectangle with start and end exchanged gives
\* the identical fragment
C13_CornerOrder ==
    Drawn =>
        /\ Emitted(d_node, "width") = Abs(Corner("start", 0) - Corner("end", 0))
        /\ Emitted(d_node, "height") = Abs(Corner("start", 1) - Corner("end", 1))
        /\ Emitted(d_node, "x") =
               Units(d_position[1]) + Min(Corner("start", 0), Corner("end", 0))
        /\ Emitted(d_node, "y") =
               Min(Units(d_position[2]) - Corner("start", 1),
                   Units(d_position[2]) - Corner("end", 1))
        /\ draw(Swapped(d_self), d_position).text = d_out.text

\* C13, the exchange alone: the rectangle with start and end exchanged gives
\* the identical fragment
C13_SwapSameFragment ==
    Drawn => draw(Swapped(d_self), d_position).text = d_out.text

\* C13, what holds: the four values are the claimed ones rounded to four
\* decimals, and the exchanged rectangle gives the same four values
C13_RoundedValuesAnyOrder ==
    Drawn =>
        LET r(u) == Units(round(Number(FALSE, u, u < 0), svg_precision))
            other == draw(Swapped(d_self), d_position).node
        IN  /\ Emitted(d_node, "width")
                   = r(Abs(Corner("start", 0) - Corner("end", 0)))
            /\ Emitted(d_node, "height")
                   = r(Abs(Corner("start", 1) - Corner("end", 1)))
            /\ Emitted(d_node, "x")
                   = r(Units(d_position[1])
                       + Min(Corner("start", 0), Corner("end", 0)))
            /\ Emitted(d_node, "y")
                   = r(Min(Units(d_position[2]) - Corner("start", 1),
                           Units(d_position[2]) - Corner("end", 1)))
            /\ \A key \in {"x", "y", "width", "height"} :
                   Emitted(other, key) = Emitted(d_node, key)

\* (rectangle (start 5 y) (end 5.0 y)) drawn at (0, 0) has x="5" and
\* width="0"; with the corners exchanged it has x="5.0" and width="0.0"
C13_SwapChangesFragment ==
    /\ Drawn
    /\ d_position = <<I(0), I(0)>>
    /\ sub_number(d_self, W("start"), 0).v = I(5)
    /\ sub_number(d_self, W("end"), 0).v = F(FALSE, 5, 0)
    /\ Get(d_node.data, "x") = <<<<"5">>>>
    /\ Get(d_node.data, "width") = <<<<"0">>>>
    /\ Get(draw(Swapped(d_self), d_position).node.data, "x")
           = <<<<"5", ".", "0">>>>
    /\ Get(draw(Swapped(d_self), d_position).node.data, "width")
           = <<<<"0", ".", "0">>>>

\* The two rectangles of the rendering test give the fragments it expects
RenderingTest ==
    /\ (/\ Drawn
        /\ d_self = Rectangle(F(TRUE, 508, 2), F(FALSE, 508, 2),
                              F(FALSE, 508, 2), F(TRUE, 1905, 3), <<>>)
        /\ d_position = <<I(0), I(0)>>)
       => d_out.text =
              <<"<", "rect", " ", "x", "=", "\"", "-", "5", ".", "0", "8",
                "\"", " ", "y", "=", "\"", "-", "5", ".", "0", "8", "\"",
                " ", "width", "=", "\"", "1", "0", ".", "1", "6", "\"", " ",
                "height", "=", "\"", "6", ".", "9", "8", "5", "\"", " ", "/",
                ">">>
    /\ (/\ d_pc = "drawn"
        /\ \E i \in 1..Len(d_self.data) : d_self.data[i] = Fill("outline")
        /\ ~\E i \in 1..Len(d_self.data) : d_self.data[i].name = W("stroke"))
       => d_out = JRes("AttributeError")

-----------------------------------------------------------------------------
(* C14, C15, C16: the bill of materials of Project.metadata                  *)

MetadataReturned == m_pc = "done" /\ m_result.st = "ok"

\* The children of n with a tag, in order
Children(n, tag) ==
    SelectSeq(n.data, LAMBDA c : IsNode(c) /\ c.name = tag)

\* The properties of a symbol named name
Properties(sym, name) ==
    SelectSeq(Children(sym, W("property")),
              LAMBDA p : p.data[1] = Quoted(W(name)))

HasProperty(sym, name) == Properties(sym, name) # <<>>

\* The value of a property of a symbol, as written
PropertyText(sym, name) == Properties(sym, name)[1].data[2].s

IsVirtual(sym) ==
    startswith(PropertyText(sym, "Reference"), <<"\"", "#">>)

\* (in_bom no)
ExcludedFromBom(sym) ==
    \E i \in 1..Len(sym.data) :
        sym.data[i] = Node(W("in_bom"), <<atom(W("no"))>>)

RECURSIVE Flatten(_)
Flatten(seqs) ==
    IF seqs = <<>> THEN <<>> ELSE Head(seqs) \o Flatten(Tail(seqs))

\* The schematic a sheet of the project stands for
SheetSchematic(sheet) ==
    Get(m_schematics,
        Get(m_fn_to_uuid, strip(PropertyText(sheet, "Sheet file"))))

\* The symbol instances of a schematic and of the sheets below it
RECURSIVE InstancesUnder(_)
InstancesUnder(sch) ==
    Children(sch, W("symbol"))
    \o Flatten([i \in 1..Len(Children(sch, W("sheet"))) |->
                   InstancesUnder(
                       SheetSchematic(Children(sch, W("sheet"))[i]))])

ExpectedParts ==
    SelectSeq(InstancesUnder(Get(m_schematics, m_top)),
              LAMBDA sym : ~IsVirtual(sym) /\ ~ExcludedFromBom(sym))

\* C14: the parts metadata counts and lists are exactly the symbol instances
\* of the top sheet and of every sub-sheet whose Reference does not begin
\* with '#' and that are not (in_bom no); no (in_bom no) symbol is among them
C14_BomExclusion ==
    MetadataReturned =>
        /\ m_parts = ExpectedParts
        /\ m_result.bom.count_part = Len(ExpectedParts)
        /\ {m_result.bom.parts[i].key : i \in 1..Len(m_result.bom.parts)}
               = {first_of(ExpectedParts[i], W("uuid")).v.s :
                     i \in 1..Len(ExpectedParts)}
        /\ \A i \in 1..Len(m_parts) : ~ExcludedFromBom(m_parts[i])

\* metadata returned with an (in_bom no) symbol counted and listed
C14_ExcludedIsCounted ==
    /\ MetadataReturned
    /\ \E i \in 1..Len(m_parts) :
          /\ ExcludedFromBom(m_parts[i])
          /\ ~IsVirtual(m_parts[i])
          /\ Has(m_result.bom.parts, first_of(m_parts[i], W("uuid")).v.s)
    /\ m_result.bom.count_part = Len(m_parts)
    /\ m_result.bom.count_part > Len(ExpectedParts)

\* The key a symbol is to be grouped by
PriorityKey(sym) ==
    IF HasProperty(sym, "MPN") THEN PropertyText(sym, "MPN")
    ELSE IF HasProperty(sym, "LCSC") THEN PropertyText(sym, "LCSC")
    ELSE PropertyText(sym, "Value") \o PropertyText(sym, "Footprint")

KeysComputed == m_pc = "done" /\ Len(m_keys) = Len(m_parts)

\* C15: the grouping key of a symbol is its MPN when it has one, else its
\* LCSC when it has one, else its Value followed by its Footprint; symbols
\* with the same MPN get the same key
C15_KeyPriority ==
    KeysComputed =>
        /\ \A i \in 1..Len(m_parts) : m_keys[i].s = PriorityKey(m_parts[i])
        /\ \A i, k \in 1..Len(m_parts) :
              (/\ HasProperty(m_parts[i], "MPN")
               /\ HasProperty(m_parts[k], "MPN")
               /\ PropertyText(m_parts[i], "MPN")
                      = PropertyText(m_parts[k], "MPN"))
              => m_keys[i] = m_keys[k]

\* Two parts with the same MPN and different Values got different keys
C15_SameMpnDifferentKeys ==
    /\ KeysComputed
    /\ \E i, k \in 1..Len(m_parts) :
          /\ HasProperty(m_parts[i], "MPN")
          /\ HasProperty(m_parts[k], "MPN")
          /\ PropertyText(m_parts[i], "MPN") = PropertyText(m_parts[k], "MPN")
          /\ PropertyText(m_parts[i], "Value")
                 # PropertyText(m_parts[k], "Value")
          /\ m_keys[i] # m_keys[k]

\* C16: count_unique is the number of distinct grouping keys among the
\* parts, whatever their order
C16_UniqueCount ==
    MetadataReturned =>
        m_result.bom.count_unique
            = Cardinality({m_keys[i] : i \in 1..Len(m_keys)})

\* Three parts whose first and last share a key the middle one does not
\* have: two distinct keys, and count_unique is three
C16_SeparatedKeyCountedTwice ==
    /\ MetadataReturned
    /\ Len(m_keys) = 3
    /\ m_keys[1] = m_keys[3]
    /\ m_keys[1] # m_keys[2]
    /\ m_result.bom.count_unique = 3

-----------------------------------------------------------------------------
(* C17: the maps of a Project                                                *)

MapsEmpty ==
    /\ j_schematics = <<>>
    /\ j_fn_to_uuid = <<>>
    /\ j_symbol_instances = <<>>

\* C17: a newly constructed Project has empty maps whatever was parsed
\* before, and a parse that follows another one ends with the maps and the
\* result it has when it is the only one
C17_ProjectIsolation ==
    /\ j_pc = "start" => MapsEmpty
    /\ (j_made > 1 /\ j_pc = "done")
       => /\ j_result.st = j_first.st
          /\ j_schematics = j_first.schematics
          /\ j_fn_to_uuid = j_first.fn_to_uuid
          /\ j_symbol_instances = j_first.symbol_instances

\* A second Project has been constructed and holds the file names and the
\* symbol instances of the first
C17_SecondProjectSeesFirst ==
    /\ j_made = 2
    /\ j_pc = "start"
    /\ j_first.st = "ok"
    /\ j_fn_to_uuid = j_first.fn_to_uuid
    /\ j_fn_to_uuid # <<>>
    /\ j_symbol_instances # <<>>

-----------------------------------------------------------------------------
(* C18: loading the sub-sheets                                               *)

\* The files the sheets of a schematic name
SheetFilesOf(sch) ==
    {join(dirname(sch_file_name),
          strip(PropertyText(Children(sch, W("sheet"))[i], "Sheet file"))) :
        i \in 1..Len(Children(sch, W("sheet")))}

RECURSIVE Reach(_, _)
Reach(files, n) ==
    IF n = 0 THEN files
    ELSE Reach(files \cup UNION {SheetFilesOf(Get(fs, f)) :
                                    f \in {g \in files : Has(fs, g)}},
               n - 1)

\* The sub-sheet files referenced from the root, directly or through others
ReferencedFiles == Reach(SheetFilesOf(Get(fs, sch_file_name)), Len(fs))

TimesOpened(f) == Cardinality({i \in 1..Len(j_opened) : j_opened[i] = f})

FirstParseDone == j_made = 1 /\ j_pc = "done" /\ j_result.st = "ok"

\* C18: during one parse no file is opened more than once, and when parse
\* has returned every sub-sheet file referenced from the root, directly or
\* through other sheets, has been opened exactly once
C18_EachSheetFileOnce ==
    /\ j_made = 1 =>
          \A i, k \in 1..Len(j_opened) : j_opened[i] = j_opened[k] => i = k
    /\ FirstParseDone => \A f \in ReferencedFiles : TimesOpened(f) = 1

\* C18, never more than once: no file is opened twice during a parse, also
\* when the sheets refer to each other in a cycle
C18_NoFileOpenedTwice ==
    \A i, k \in 1..Len(j_opened) : j_opened[i] = j_opened[k] => i = k

\* parse has returned; the root names a/sub.kicad_sch and b/sub.kicad_sch,
\* both exist, and the second was never opened
C18_SameBasenameSkipped ==
    /\ FirstParseDone
    /\ <<"proj", "/", "b", "/", "sub.kicad_sch">> \in ReferencedFiles
    /\ Has(fs, <<"proj", "/", "b", "/", "sub.kicad_sch">>)
    /\ TimesOpened(<<"proj", "/", "a", "/", "sub.kicad_sch">>) = 1
    /\ TimesOpened(<<"proj", "/", "b", "/", "sub.kicad_sch">>) = 0
    /\ Len(j_schematics) = 2

-----------------------------------------------------------------------------
(* C19: exclusive ownership across PCB.append                               *)

Appended == g_pc \in {"appended", "moved"}

NodeChildren(n) == {i \in 1..Len(n.data) : IsNode(n.data[i])}

\* the pairs <<parent, child>> of object ids below n
RECURSIVE links(_)
links(n) ==
    UNION { {<<n.id, n.data[i].id>>} \cup links(n.data[i]) :
            i \in NodeChildren(n) }

\* the ids of the objects below n, n included
objects_of(n) == {n.id} \cup {l[2] : l \in links(n)}

AllLinks ==
    links(g_self) \cup UNION {links(g_pcbs[i].pcb) : i \in 1..Len(g_pcbs)}

\* C19: after receiver.append(boards) no node object is a child of two
\* different parent nodes, nothing held in the receiver is also held in an
\* appended board's tree, and a later board.move leaves the receiver as it was.
C19_ExclusiveOwnership ==
    Appended =>
        /\ \A l1, l2 \in AllLinks : l1[2] = l2[2] => l1[1] = l2[1]
        /\ \A i \in 1..Len(g_pcbs) :
              objects_of(g_self) \cap objects_of(g_pcbs[i].pcb) = {}
        /\ g_pc = "moved" => g_self = g_before

\* a board element is a child of the board's root and of the receiver's root,
\* and moving the board afterwards has changed the receiver
C19_BoardMoveMovesReceiver ==
    /\ g_pc = "moved"
    /\ g_self # g_before
    /\ \E i \in 1..Len(g_pcbs) : \E l1, l2 \in AllLinks :
          /\ l1[2] = l2[2]
          /\ l1[1] = g_self.id
          /\ l2[1] = g_pcbs[i].pcb.id
          /\ g_pcbs[i].pcb.data[l2[2][2] + 1].name = W("footprint")

-----------------------------------------------------------------------------
(* C20: what PCB.append puts among the receiver's top-level children        *)

Allowed == {copy_parts[i] : i \in 1..Len(copy_parts)}

\* the top-level elements of n with an allow-listed tag
TopElements(n) ==
    {n.data[i] : i \in {j \in NodeChildren(n) : n.data[j].name \in Allowed}}

TimesHeld(n, element) ==
    Cardinality({i \in NodeChildren(n) : n.data[i] = element})

FootprintCount(n) ==
    Cardinality({i \in NodeChildren(n) : n.data[i].name = W("footprint")})

RECURSIVE BoardsFootprintCount(_)
BoardsFootprintCount(pcbs) ==
    IF pcbs = <<>> THEN 0
    ELSE FootprintCount(Head(pcbs).pcb) + BoardsFootprintCount(Tail(pcbs))

\* the children of the receiver that are neither its own nor an element of a board
Spliced ==
    {i \in 1..Len(g_self.data) :
        /\ i > Len(g_before.data)
        /\ \A b \in 1..Len(g_pcbs) :
              g_self.data[i] \notin TopElements(g_pcbs[b].pcb)}

\* C20: after receiver.append(boards) each allow-listed top-level element of
\* each board occurs exactly once, whole, among the receiver's top-level
\* children; the receiver's footprint count is its own plus the boards'; and
\* no atom or child of an element is spliced into the receiver's top level.
C20_WholeElementsCopied ==
    g_pc = "appended" =>
        /\ \A b \in 1..Len(g_pcbs) :
              \A element \in TopElements(g_pcbs[b].pcb) :
                 TimesHeld(g_self, element) = 1
        /\ FootprintCount(g_self)
              = FootprintCount(g_before) + BoardsFootprintCount(g_pcbs)
        /\ Spliced = {}

\* one board's only footprint was spliced into the receiver as its fields, and
\* of another board's two footprints of one library name only one arrived
C20_SplicedAndDropped ==
    /\ g_pc = "appended"
    /\ \E i \in Spliced : IsStr(g_self.data[i])
    /\ \E i \in Spliced : IsNode(g_self.data[i]) /\ g_self.data[i].name = W("pad")
    /\ \E b \in 1..Len(g_pcbs) :
          /\ FootprintCount(g_pcbs[b].pcb) = 2
          /\ Cardinality({element \in TopElements(g_pcbs[b].pcb) :
                TimesHeld(g_self, element) = 1}) = 1
    /\ FootprintCount(g_self)
          < FootprintCount(g_before) + BoardsFootprintCount(g_pcbs)


\* C21 (as stated): once the receiver is normalised its box has its minimum
\* corner at the origin; every appended board, right after its move, has its
\* box 20.0 to the right of the receiver's box of that moment and its minimum
\* y at 0; so no board's box reaches into the receiver's or an earlier board's.
C21_PlacedRightOfReceiver ==
    g_pc = "appended" =>
        /\ g_placed[1].box.min_x = 0
        /\ g_placed[1].box.min_y = 0
        /\ \A i \in 2..Len(g_placed) :
              /\ g_placed[i].box.min_x
                    = g_placed[i].target.max_x + 20 * 100000
              /\ g_placed[i].box.min_y = 0
        /\ \A i \in 1..Len(g_placed) : \A j \in (i + 1)..Len(g_placed) :
              g_placed[j].box.min_x > g_placed[i].box.max_x

\* C21: a receiver holding a footprint with an fp_line has been normalised,
\* and its box does not start at the origin
C21_ReceiverNotAtOrigin ==
    /\ g_pc = "appended"
    /\ instances(g_before, {"FPLine"}) # <<>>
    /\ g_placed[1].box.min_x < 0

\* the tags of the node children of n
ChildTags(n) == {n.data[i].name : i \in NodeChildren(n)}

\* C22 (as stated): when append has returned, the receiver root knows exactly
\* the tags of its node children, holds as seen more than once exactly the
\* tags that occur twice or more, resolves a tag occurring once to that one
\* child, and parsed() run again leaves the classification as it is.
C22_ClassifiedByCardinality ==
    g_pc = "appended" =>
        /\ g_self.known = ChildTags(g_self)
        /\ g_self.more
              = {tag \in ChildTags(g_self) : Len(Occurrences(g_self, tag)) >= 2}
        /\ \A tag \in ChildTags(g_self) :
              Len(Occurrences(g_self, tag)) = 1 =>
                  __getattr__(g_self, tag)
                     = [r |-> "single", item |-> Occurrences(g_self, tag)[1]]
        /\ parsed(g_self) = g_self

\* C22: append has returned, the receiver holds one version child, and the
\* root counts version among the tags seen more than once; the lookup of
\* version fails
C22_SingleTagCountedTwice ==
    /\ g_pc = "appended"
    /\ Len(Occurrences(g_self, W("version"))) = 1
    /\ W("version") \in g_self.more
    /\ __getattr__(g_self, W("version")).r = "AttributeError"

-----------------------------------------------------------------------------
(* Properties of Footprint.bounding_box (C23, C24)                          *)

Range(seq) == {seq[i] : i \in 1..Len(seq)}

\* the corners of the pads and the ends of the fp_lines of footprint f, in
\* the footprint's own coordinates
OwnPoints(f) ==
    UNION ({Range(pad_corners(pad).rows) : pad \in Range(Occurrences(f, W("pad")))}
           \cup {Range(fp_line_corners(line).rows) :
                    line \in Range(Occurrences(f, W("fp_line")))})

\* the smallest box around the points
BoxAround(points) ==
    IF points = {} THEN reset
    ELSE [valid |-> TRUE,
          min_x |-> SetMin({p[1] : p \in points}),
          min_y |-> SetMin({p[2] : p \in points}),
          max_x |-> SetMax({p[1] : p \in points}),
          max_y |-> SetMax({p[2] : p \in points})]

Anchor(f) == Occurrences(f, W("at"))[1].data

Inside(b, x, y) ==
    b.valid /\ b.min_x <= x /\ x <= b.max_x /\ b.min_y <= y /\ y <= b.max_y

\* the footprint came from text: its first child is the library name
FromText(f) == f.data # <<>> /\ ~IsNode(f.data[1])

\* C23 (as stated): for a footprint parsed from text, with any number of
\* pads and fp_lines and no angle, bounding_box() returns a box which, moved
\* back by the anchor, holds every pad corner and both ends of every fp_line;
\* the box is empty only when the footprint has neither pads nor fp_lines.
C23_BoxHoldsPadsAndLines ==
    (f_pc = "measured" /\ FromText(f_self) /\ Len(Anchor(f_self)) = 2) =>
        /\ f_box.st = "ok"
        /\ \A p \in OwnPoints(f_self) :
              Inside(f_box.box, p[1] + Units(Anchor(f_self)[1]),
                                p[2] + Units(Anchor(f_self)[2]))
        /\ ~f_box.box.valid => OwnPoints(f_self) = {}

\* C23: a footprint parsed from text with two pads has been measured, and the
\* box returned is empty
C23_TwoPadsEmptyBox ==
    /\ f_pc = "measured"
    /\ FromText(f_self)
    /\ Len(Occurrences(f_self, W("pad"))) = 2
    /\ f_box.st = "ok"
    /\ ~f_box.box.valid

\* C24 (as stated): the box bounding_box() returns is the union of the pads
\* and fp_lines, rotated once by the footprint's angle when it has one and
\* then moved once by the anchor, whether the footprint has pads, fp_lines or
\* both; without an angle it is the union moved by exactly (ax, ay).
C24_PlacedOnce ==
    (f_pc = "measured" /\ f_box.st = "ok") =>
        f_box.box = rotate_translate(f_self, BoxAround(OwnPoints(f_self)))

\* C24: a footprint with one pad and one fp_line and no angle has been
\* measured; the box is not the union moved by the anchor, and it holds the
\* pad's corners moved by twice the anchor
C24_MovedTwice ==
    /\ f_pc = "measured"
    /\ Len(Occurrences(f_self, W("pad"))) = 1
    /\ Len(Occurrences(f_self, W("fp_line"))) = 1
    /\ Anchor(f_self) = <<I(10), I(20)>>
    /\ f_box.st = "ok"
    /\ f_box.box # translate(BoxAround(OwnPoints(f_self)),
                             <<Units(I(10)), Units(I(20))>>)
    /\ \A p \in Range(pad_corners(Occurrences(f_self, W("pad"))[1]).rows) :
          Inside(f_box.box, p[1] + 2 * Units(I(10)), p[2] + 2 * Units(I(20)))


-----------------------------------------------------------------------------
(* Properties of Schematic.append and Schematic.to_sheet (C25, C26, C27)    *)

\* the place in sheet_instances of the entry made for the k-th appended sheet
EntryOf(k) == Len(a_pages) - Len(a_sheets) + k

PageNo(i) == page_int(a_pages[i].page)

\* C25 (as stated): every appended sheet gets page 1 + the largest page
\* among the instances present before it, in whatever order those stand; the
\* pages of all instances differ pairwise and the appended ones increase.
C25_PageAfterLargest ==
    /\ \A k \in 1..Len(a_sheets) :
          PageNo(EntryOf(k))
             = 1 + SetMax({PageNo(i) : i \in 1..(EntryOf(k) - 1)})
    /\ \A i, j \in 1..Len(a_pages) : i # j => PageNo(i) # PageNo(j)
    /\ \A k \in 2..Len(a_sheets) : PageNo(EntryOf(k - 1)) < PageNo(EntryOf(k))

\* C25: a sheet has been appended to a target whose last instance did not
\* hold the largest page, and two instances carry the same page
C25_PageGivenTwice ==
    /\ Len(a_sheets) >= 1
    /\ \E i, j \in 1..Len(a_pages) : i < j /\ PageNo(i) = PageNo(j)

\* C26 (as stated): every appended sheet has its one entry in
\* sheet_instances, whose path string is the quoted "/" followed by exactly
\* the value held by the sheet's uuid child.
C26_PathIsSlashUuid ==
    \A k \in 1..Len(a_sheets) :
        a_pages[EntryOf(k)].path
           = <<"\"", "/">> \o __str__(a_sheets[k].uuid.data[1]) \o <<"\"">>

\* C26: a sheet has been appended, and the path string of its entry holds a
\* line break, a parenthesis and the tag name before the value
C26_PathHoldsWholeNode ==
    /\ Len(a_sheets) >= 1
    /\ SubSeq(a_pages[EntryOf(1)].path, 1, 6)
          = <<"\"", "/", "\n", "(", "uuid", " ">>

\* C27 (as stated): to_sheet of a schematic with n hierarchical labels, for
\* every n from 0 on, n = 1 and labels of one name included, returns a sheet
\* with n pins, the i-th with the i-th label's name and shape, of height
\* (n + 1) * 2.54 and width (max(longest name, 4) + 2) * 1.27.
C27_PinPerLabel ==
    [][ (a_pc = "loop" /\ a_todo # <<>>) =>
           /\ Len(a_sheets') = Len(a_sheets) + 1
           /\ Len(a_sheets'[Len(a_sheets')].pins) = Len(Head(a_todo))
           /\ \A i \in 1..Len(Head(a_todo)) :
                 /\ a_sheets'[Len(a_sheets')].pins[i].name
                       = Quoted(Head(a_todo)[i])
                 /\ a_sheets'[Len(a_sheets')].pins[i].shape = atom(W("input"))
           /\ a_sheets'[Len(a_sheets')].size
                 = << (SetMax({4} \cup {Len(Head(a_todo)[i]) :
                                         i \in 1..Len(Head(a_todo))}) + 2) * 1270,
                      (Len(Head(a_todo)) + 1) * 2540 >> ]_vars

\* C27: append has stopped at a schematic with one hierarchical label, on the
\* AttributeError to_sheet raised
C27_OneLabelRaises ==
    /\ a_pc = "done"
    /\ a_todo # <<>>
    /\ Len(Head(a_todo)) = 1
    /\ a_result = JRes("AttributeError")

-----------------------------------------------------------------------------
(* Properties of PCB.move (C28)                                             *)

\* The tree n, child of parent, grandchild of grand, with (dx, dy) added once
\* to the at/xy/start/end/center/mid children of to-be-moved elements and to
\* each xy of their pts, pts below primitives left out, and nothing else
\* touched
RECURSIVE Shifted(_, _, _, _, _)
Shifted(n, parent, grand, dx, dy) ==
    Only({ IF n.name = W("pts")
           THEN IF parent \in to_be_moved /\ grand \notin skip_move
                THEN pts_move_xy(n, dx, dy) ELSE n
           ELSE IF n.name \in movable_types /\ parent \in to_be_moved
           THEN move_xy(below, dx, dy)
           ELSE below :
           below \in { [n EXCEPT !.data = [i \in 1..Len(n.data) |->
                          IF IsNode(n.data[i])
                          THEN Shifted(n.data[i], n.name, parent, dx, dy)
                          ELSE n.data[i]]] } })

\* C28 (as stated): move(dx, dy) never fails; it adds (dx, dy) once to each
\* absolute coordinate pair of the board and leaves every other atom and node
\* as it was.
C28_MoveShiftsCoordinatesOnly ==
    k_pc = "moved" =>
        /\ k_result = "ok"
        /\ k_pcb = Shifted(k_before, <<>>, <<>>, k_offset[1], k_offset[2])

\* C28: move was called on a board with a footprint holding a property, and
\* raised TypeError after it had moved part of the board
C28_MoveRaisesOnProperty ==
    /\ k_pc = "moved"
    /\ instances(k_before, {"Drawable"}) # <<>>
    /\ k_result = "TypeError"
    /\ k_pcb # k_before
    /\ k_pcb # Shifted(k_before, <<>>, <<>>, k_offset[1], k_offset[2])

-----------------------------------------------------------------------------
(* Properties of the union field (C29)                                      *)

\* the field loop is about to take the paper keyword with its one item
AtPaper ==
    /\ t_pc = "fields"
    /\ t_idx < Len(t_kwargs)
    /\ t_kwargs[t_idx + 1].kw = W("paper")
    /\ Len(t_kwargs[t_idx + 1].exp) = 1

\* the members were tried in declaration order, none after a success, and
\* each returned or raised what its construction from the item gives
TriedInOrder(tries, args) ==
    /\ tries # <<>>
    /\ Len(tries) <= Len(PaperMembers)
    /\ \A i \in 1..Len(tries) :
          /\ tries[i].member = PaperMembers[i]
          /\ tries[i].out = paper_member(PaperMembers[i], args)
    /\ \A i \in 1..(Len(tries) - 1) : tries[i].out.err # "ok"

\* C29 (as stated): the members are tried in declaration order and the first
\* success is taken; a failure of any kind in an earlier member does not keep
\* a later member from being tried; when all fail, the first member's error
\* is raised.
C29_AnyFailureTriesNext ==
    [][ AtPaper =>
           /\ TriedInOrder(t_tried', t_kwargs[t_idx + 1].exp[1])
           /\ \A i \in 1..Len(t_tried') :
                 (t_tried'[i].out.err # "ok" /\ i < Len(PaperMembers))
                    => Len(t_tried') > i
           /\ IF t_tried'[Len(t_tried')].out.err = "ok"
              THEN t_pc' = "fields" /\ t_result' = t_result
              ELSE t_pc' = "done" /\ t_result' = t_tried'[1].out ]_vars

\* C29 (amended): the members are tried in declaration order and the first
\* success is taken; a ValidationError or TypeError in an earlier member does
\* not keep a later member from being tried, and when all fail with such
\* errors the first member's error is raised; any other error a member
\* raises ends the loop and is the error raised.
C29_CaughtFailureTriesNext ==
    [][ AtPaper =>
           /\ TriedInOrder(t_tried', t_kwargs[t_idx + 1].exp[1])
           /\ \A i \in 1..Len(t_tried') :
                 /\ (t_tried'[i].out.err \in Caught /\ i < Len(PaperMembers))
                       => Len(t_tried') > i
                 /\ t_tried'[i].out.err \notin Caught => Len(t_tried') = i
           /\ IF t_tried'[Len(t_tried')].out.err = "ok"
              THEN t_pc' = "fields" /\ t_result' = t_result
              ELSE /\ t_pc' = "done"
                   /\ t_result' = IF t_tried'[Len(t_tried')].out.err \in Caught
                                  THEN t_tried'[1].out
                                  ELSE t_tried'[Len(t_tried')].out ]_vars

\* C29: the first member raised a TypeError, and the second was tried and
\* taken
C29_SecondMemberTaken ==
    /\ Len(t_tried) = 2
    /\ t_tried[1].out.err = "TypeError"
    /\ t_tried[2].out.err = "ok"
    /\ t_tried[2].member = "PaperUser"
-----------------------------------------------------------------------------
(* C30: metadata() after parse()                                            *)

\* The sheets parse() walked from sch on, one for the sheet itself and one
\* more walk for every sheet block: the blocks as _parse_sheet finds them,
\* the file under the key _parse_sheet reads it from
RECURSIVE SheetsBelow(_, _)
RECURSIVE SheetsOfBlocks(_, _)
SheetsBelow(sch, fuel) ==
    IF fuel = 0 THEN 0
    ELSE 1 + SheetsOfBlocks(sheets_of(sch).sheets, fuel - 1)

SheetsOfBlocks(blocks, fuel) ==
    IF blocks = <<>> THEN 0
    ELSE SheetsBelow(Get(loaded_schematics,
                         Get(j_fn_to_uuid,
                             basename(sheet_file_of(Head(blocks)).file))),
                     fuel)
         + SheetsOfBlocks(Tail(blocks), fuel)

\* C30: on every project parse() has completed on, metadata() returns, and
\* its "sheets" is the number of sheets reached from the top sheet, each
\* counted once per sheet block that leads to it.
C30_MetadataFollowsParse ==
    j_meta # NoMeta
    => /\ j_meta.st = "ok"
       /\ j_meta.bom.sheets = SheetsBelow(Get(fs, sch_file_name), Len(fs))

\* parse() completed on a schematic with symbols and exactly one sheet block,
\* and metadata() raised AttributeError
C30_OneSheetBlockRaises ==
    /\ j_result.st = "ok"
    /\ iterate(j_sch, W("symbol")).st = "ok"
    /\ Len(sheets_of(j_sch).sheets) = 1
    /\ j_meta.st = "AttributeError"

-----------------------------------------------------------------------------
(* The whole: the components side by side                                   *)

Init == ParserInit /\ BBoxInit /\ TypedInit /\ ProjInit /\ SheetsInit /\ NetInit /\ DrawInit /\ BomInit /\ MergeInit /\ FootInit /\ MoveInit

Next == ParserNext \/ BBoxNext \/ TypedNext \/ ProjNext \/ SheetsNext \/ NetNext \/ DrawNext \/ BomNext \/ MergeNext \/ FootNext \/ MoveNext

Spec == Init /\ [][Next]_vars

=============================================================================
